---- MODULE Spec2Model ----
(***************************************************************************)
(* Model of the pricing-card extraction engine of saas-pricing-analytics:  *)
(*   src/src/extract/scraping/scraper.py  (generic scraper)                *)
(*   src/src/scraping/scraper.py          (Notion scraper)                 *)
(* Texts are TLA+ strings handled character by character (SubSeq, Len,     *)
(* \o), so that substring search, lower-casing, trimming and the regular   *)
(* expressions of the code are computed as the code computes them.         *)
(***************************************************************************)
EXTENDS Integers, Sequences, FiniteSets, TLC

VARIABLES
    mode,            \* which entry point this behaviour exercises
    fault,           \* the driver call that raises in this run, if any
    previous_result, \* what the previous call of scrape_pricing returned
    Tier_Level,      \* etl_pipeline.py:161, value of assign_tier_level
    etl_Price_Numeric,       \* etl_pipeline.py:157, value of normalize_price
    transform_Price_Numeric, \* transform_pricing.py:85, value of
                             \* standardize_price
    Feature_Count,   \* etl_pipeline.py:171, one count per record
    Features_clean,  \* transform_pricing.py:88, clean_features per record
    companies_df,    \* main: the company rows read from companies.csv
    scrape_outcome,  \* main: what scrape_pricing does for each row
    row_i,           \* main: index of the row of the for loop
    results,         \* main: the summary entries appended so far
    csv_files,       \* main: the names of the CSV files written so far
    driver_quit,     \* main: TRUE once driver.quit() has run
    pricing_df,      \* generate_users: the pricing table that was loaded
    users,           \* generate_users: the user records appended so far
    container_text,  \* extract_price: argument text (scraper.py:34, :192)
    tier,            \* extract_price: argument tier_name / loop variable tier
    price,           \* value returned by extract_price / assigned at :193
    pc,              \* position of the running function
    page,            \* the rendered document tree the driver exposes
    tier_names,      \* the tier labels searched for, in order
    ti,              \* index of `tier` in tier_names (the for loop)
    tier_heading,    \* node chosen as heading, 0 for None
    current,         \* node reached by the ascent, 0 for None
    level,           \* number of ascent iterations already run
    best_container,  \* generic scraper: best ancestor so far, 0 for None
    best_score,      \* generic scraper: its score, in units of 1/200
    scored,          \* generic scraper: the candidates scored so far, with
                     \* the locals of lines 158-178 as they were per level
    containers_by_size, \* Notion scraper: the collected candidates
    features,        \* the feature list being built for the current tier
    li_i,            \* index of the next list item of the feature loop
    pricing_data     \* the records emitted so far

priceVars == <<container_text, tier, price>>

etlVars ==
    <<Tier_Level, etl_Price_Numeric, transform_Price_Numeric, Feature_Count,
      Features_clean>>

mainVars ==
    <<companies_df, scrape_outcome, row_i, results, csv_files, driver_quit>>

userVars == <<pricing_df, users>>

scrapeVars ==
    <<page, tier_names, ti, tier_heading, current, level, best_container,
      best_score, scored, containers_by_size, features, li_i,
      pricing_data>>

vars ==
    <<mode, fault, mainVars, userVars, previous_result, etlVars, pc,
      priceVars, scrapeVars>>

\* ------------------------------------------------------------------------
\* Python str primitives
\* ------------------------------------------------------------------------

Char(s, i) == SubSeq(s, i, i)

UpperAlpha == "ABCDEFGHIJKLMNOPQRSTUVWXYZ"

LowerAlpha == "abcdefghijklmnopqrstuvwxyz"

Digits == {"0", "1", "2", "3", "4", "5", "6", "7", "8", "9"}

Whitespace == {" ", "\n", "\t", "\r"}

IsDigit(c) == c \in Digits

IsSpace(c) == c \in Whitespace

\* the lower-case letter of every upper-case letter
LowerOf ==
    [c \in {Char(UpperAlpha, k) : k \in 1..26} |->
        Char(LowerAlpha, CHOOSE k \in 1..26 : Char(UpperAlpha, k) = c)]

\* the upper-case letter of every lower-case letter
UpperOf ==
    [c \in {Char(LowerAlpha, k) : k \in 1..26} |->
        Char(UpperAlpha, CHOOSE k \in 1..26 : Char(LowerAlpha, k) = c)]

RECURSIVE UpperStr(_)
\* str.upper()
UpperStr(s) ==
    IF Len(s) = 0 THEN ""
    ELSE IF Len(s) = 1 THEN (IF s \in DOMAIN UpperOf THEN UpperOf[s] ELSE s)
    ELSE LET h == Len(s) \div 2
         IN  UpperStr(SubSeq(s, 1, h)) \o UpperStr(SubSeq(s, h + 1, Len(s)))

\* str.lower() on one character
LowerChar(c) == IF c \in DOMAIN LowerOf THEN LowerOf[c] ELSE c

RECURSIVE LowerStr(_)
\* str.lower()
LowerStr(s) ==
    IF Len(s) = 0 THEN ""
    ELSE IF Len(s) = 1 THEN LowerChar(s)
    ELSE LET h == Len(s) \div 2
         IN  LowerStr(SubSeq(s, 1, h)) \o LowerStr(SubSeq(s, h + 1, Len(s)))

\* Python's `p in s`
Contains(s, p) ==
    \E i \in 1..(Len(s) - Len(p) + 1) : SubSeq(s, i, i + Len(p) - 1) = p

\* s[i:].startswith(p)
StartsWithAt(s, i, p) ==
    /\ i >= 1
    /\ i + Len(p) - 1 <= Len(s)
    /\ SubSeq(s, i, i + Len(p) - 1) = p

\* str.strip()
Strip(s) ==
    IF \A i \in 1..Len(s) : IsSpace(Char(s, i)) THEN ""
    ELSE LET a == CHOOSE i \in 1..Len(s) :
                     /\ ~IsSpace(Char(s, i))
                     /\ \A k \in 1..(i - 1) : IsSpace(Char(s, k))
             b == CHOOSE i \in 1..Len(s) :
                     /\ ~IsSpace(Char(s, i))
                     /\ \A k \in (i + 1)..Len(s) : IsSpace(Char(s, k))
         IN  SubSeq(s, a, b)

\* str.replace('\n', ' ')
RECURSIVE ReplaceNewlines(_)
ReplaceNewlines(s) ==
    IF Len(s) = 0 THEN ""
    ELSE IF Len(s) = 1 THEN (IF s = "\n" THEN " " ELSE s)
    ELSE LET h == Len(s) \div 2
         IN  ReplaceNewlines(SubSeq(s, 1, h))
                 \o ReplaceNewlines(SubSeq(s, h + 1, Len(s)))

\* ------------------------------------------------------------------------
\* Regular expressions of extract_price
\* ------------------------------------------------------------------------

NoMatch == [found |-> FALSE, group0 |-> "", group1 |-> ""]

\* end of the maximal run of digits that starts at i (greedy \d+)
DigitsEnd(s, i) ==
    CHOOSE j \in i..Len(s) :
        /\ \A k \in i..j : IsDigit(Char(s, k))
        /\ (j = Len(s) \/ ~IsDigit(Char(s, j + 1)))

\* (?:\.\d{2}) matches right after position j
CentsAfter(s, j) ==
    /\ j + 3 <= Len(s)
    /\ Char(s, j + 1) = "."
    /\ IsDigit(Char(s, j + 2))
    /\ IsDigit(Char(s, j + 3))

\* faulty variant of DollarSearch: the pattern without its optional cents group
DollarSearch_no_cents(s) ==
    LET starts == {i \in 1..(Len(s) - 1) :
                      Char(s, i) = "$" /\ IsDigit(Char(s, i + 1))}
    IN  IF starts = {} THEN NoMatch
        ELSE LET i == CHOOSE a \in starts : \A b \in starts : a <= b
             IN  [found |-> TRUE, group0 |-> SubSeq(s, i, DigitsEnd(s, i + 1)),
                  group1 |-> ""]

\* re.search(r'\$\d+(?:\.\d{2})?', s): leftmost match, greedy
DollarSearch(s) ==
    LET starts == {i \in 1..(Len(s) - 1) :
                      Char(s, i) = "$" /\ IsDigit(Char(s, i + 1))}
    IN  IF starts = {} THEN NoMatch
        ELSE LET i == CHOOSE a \in starts : \A b \in starts : a <= b
                 j == DigitsEnd(s, i + 1)
                 e == IF CentsAfter(s, j) THEN j + 3 ELSE j
             IN  [found |-> TRUE, group0 |-> SubSeq(s, i, e), group1 |-> ""]

\* first position at or after p that holds no whitespace (greedy \s*)
SkipSpaces(s, p) ==
    CHOOSE q \in p..(Len(s) + 1) :
        /\ \A k \in p..(q - 1) : IsSpace(Char(s, k))
        /\ (q = Len(s) + 1 \/ ~IsSpace(Char(s, q)))

\* (?:per|/|month|mo) matches at position q
PeriodWordAt(s, q) ==
    \/ StartsWithAt(s, q, "per")
    \/ StartsWithAt(s, q, "/")
    \/ StartsWithAt(s, q, "month")
    \/ StartsWithAt(s, q, "mo")

\* the pattern (\d+)(?:\.\d{2})?\s*(?:per|/|month|mo) matches starting at i
NumberMatchAt(s, i) ==
    /\ IsDigit(Char(s, i))
    /\ LET j == DigitsEnd(s, i)
       IN  \/ CentsAfter(s, j) /\ PeriodWordAt(s, SkipSpaces(s, j + 4))
           \/ PeriodWordAt(s, SkipSpaces(s, j + 1))

\* what group(1) of the pattern captures for a match starting at i
NumberGroup1(s, i) == SubSeq(s, i, DigitsEnd(s, i))

\* re.search(r'(\d+)(?:\.\d{2})?\s*(?:per|/|month|mo)', s)
NumberSearch(s) ==
    LET starts == {i \in 1..Len(s) : NumberMatchAt(s, i)}
    IN  IF starts = {} THEN NoMatch
        ELSE LET i == CHOOSE a \in starts : \A b \in starts : a <= b
             IN  [found |-> TRUE, group0 |-> "", group1 |-> NumberGroup1(s, i)]

\* ------------------------------------------------------------------------
\* extract_price (generic scraper)
\* ------------------------------------------------------------------------

contact_patterns ==
    {"contact sales", "contact us", "get in touch", "talk to sales",
     "custom pricing"}

HasContactPattern(text_lower) ==
    \E pattern \in contact_patterns : Contains(text_lower, pattern)

\* faulty variant of IsFreePattern: the tier label compared without lower()
IsFreePattern_case_sensitive(text_lower, tier_name) ==
    \/ tier_name = "free"
    \/ Contains(text_lower, "free forever")
    \/ Strip(text_lower) = "free"

IsFreePattern(text_lower, tier_name) ==
    \/ LowerStr(tier_name) = "free"
    \/ Contains(text_lower, "free forever")
    \/ Strip(text_lower) = "free"

\* faulty variant of extract_price: the bare number returned without its "$" prefix
extract_price_no_prefix(text, tier_name) ==
    LET text_lower == LowerStr(text)
    IN  IF HasContactPattern(text_lower) THEN "Contact sales"
        ELSE IF IsFreePattern(text_lower, tier_name) THEN "Free"
        ELSE LET price_match == DollarSearch(text)
             IN  IF price_match.found THEN price_match.group0
                 ELSE LET number_match == NumberSearch(text_lower)
                      IN  IF number_match.found
                          THEN number_match.group1
                          ELSE IF LowerStr(tier_name) = "enterprise"
                               THEN "Contact sales"
                               ELSE "N/A"

\* faulty variant of extract_price: the dollar pattern tried before the contact phrases
extract_price_dollar_first(text, tier_name) ==
    LET text_lower == LowerStr(text)
        price_match == DollarSearch(text)
    IN  IF price_match.found THEN price_match.group0
        ELSE IF HasContactPattern(text_lower) THEN "Contact sales"
        ELSE IF IsFreePattern(text_lower, tier_name) THEN "Free"
        ELSE LET number_match == NumberSearch(text_lower)
             IN  IF number_match.found
                 THEN "$" \o number_match.group1
                 ELSE IF LowerStr(tier_name) = "enterprise"
                      THEN "Contact sales"
                      ELSE "N/A"

extract_price(text, tier_name) ==
    LET text_lower == LowerStr(text)
    IN  IF HasContactPattern(text_lower) THEN "Contact sales"
        ELSE IF IsFreePattern(text_lower, tier_name) THEN "Free"
        ELSE LET price_match == DollarSearch(text)
             IN  IF price_match.found THEN price_match.group0
                 ELSE LET number_match == NumberSearch(text_lower)
                      IN  IF number_match.found
                          THEN "$" \o number_match.group1
                          ELSE IF LowerStr(tier_name) = "enterprise"
                               THEN "Contact sales"
                               ELSE "N/A"

\* ------------------------------------------------------------------------
\* Inputs of the price recognizer
\* ------------------------------------------------------------------------

MaxTokens == 3

PriceTokens ==
    {"Contact Sales", "contact us", "Free", "free forever", "$", "17", ".50",
     " ", "per", "/mo", "x"}

RECURSIVE Concat(_)
Concat(ts) == IF ts = <<>> THEN "" ELSE Head(ts) \o Concat(Tail(ts))

TokenTexts ==
    {Concat(ts) : ts \in UNION {[1..n -> PriceTokens] : n \in 0..MaxTokens}}

ExampleTexts ==
    {"Starts at $17.50/month for unlimited members",
     "49 per month, billed annually",
     "17.50 per month",
     "Get in Touch for a quote, from $500",
     "TALK TO SALES",
     "Custom Pricing - free forever for students",
     "  Free\n",
     "5 more seats",
     "Billed monthly"}

PriceTexts == TokenTexts \cup ExampleTexts

PriceTiers == {"Free", "FREE", "Pro", "Enterprise"}

\* ------------------------------------------------------------------------
\* The document tree (Selenium WebElement capabilities used by the scrapers)
\* A page is a sequence of nodes in document order; node 1 is <html>.
\* Every element is rendered as a block: the text of an element is the text
\* of its own text node and of its descendants, one per line.
\* ------------------------------------------------------------------------

Node(tag, parent, own) == [tag |-> tag, parent |-> parent, own |-> own]

\* arguments[0].parentElement; 0 stands for null / None
ParentElement(pg, n) == pg[n].parent

RECURSIVE IsAncestor(_, _, _)
\* a is a proper ancestor of n
IsAncestor(pg, a, n) ==
    IF pg[n].parent = 0 THEN FALSE
    ELSE pg[n].parent = a \/ IsAncestor(pg, a, pg[n].parent)

\* the nodes of the page that satisfy Test, in document order
NodesWhere(pg, Test(_)) == SelectSeq([m \in 1..Len(pg) |-> m], Test)

RECURSIVE JoinWith(_, _)
\* sep.join(parts)
JoinWith(parts, sep) ==
    IF parts = <<>> THEN ""
    ELSE IF Len(parts) = 1 THEN parts[1]
    ELSE parts[1] \o sep \o JoinWith(Tail(parts), sep)

RECURSIVE NonEmptyOwn(_, _)
\* the non-empty own texts of the listed nodes
NonEmptyOwn(pg, ns) ==
    IF ns = <<>> THEN <<>>
    ELSE (IF pg[Head(ns)].own = "" THEN <<>> ELSE <<pg[Head(ns)].own>>)
             \o NonEmptyOwn(pg, Tail(ns))

\* WebElement.text: the rendered text of the element, trimmed
ElemText(pg, n) ==
    LET InSubtree(m) == m = n \/ IsAncestor(pg, n, m)
    IN  Strip(JoinWith(NonEmptyOwn(pg, NodesWhere(pg, InSubtree)), "\n"))

\* element.find_elements(By.TAG_NAME, tag): descendants, document order
FindByTag(pg, n, tag) ==
    LET Hit(m) == pg[m].tag = tag /\ IsAncestor(pg, n, m)
    IN  NodesWhere(pg, Hit)

\* driver.find_elements(By.XPATH, "//*[text()='T' or contains(text(), 'T')]")
FindByTextContains(pg, t) ==
    LET Hit(m) == pg[m].own # "" /\ Contains(pg[m].own, t)
    IN  NodesWhere(pg, Hit)

\* s[:n]
Take(s, n) == SubSeq(s, 1, IF Len(s) < n THEN Len(s) ELSE n)

\* x in list
InList(x, list) == \E k \in 1..Len(list) : list[k] = x

\* ------------------------------------------------------------------------
\* scrape_pricing (generic scraper): the loop over the tier labels
\* ------------------------------------------------------------------------

HeadingMaxLen == 50

HeadingTags == {"h1", "h2", "h3", "h4", "h5", "h6", "span", "div"}

AscentLevels == 10

InitialBestScore == -999

MinTextLen == 50

MaxTextLen == 5000

PriceBonus == 50

OtherTierPenalty == 40

ListBonus == 30

MinListItems == 3

MaxListItems == 30

SizeDivisor == 200

FeatureCap == 30

MinFeatureLen == 5

MaxFeatureLen == 250

\* faulty variant of IsHeadingLike: the tag is not looked at
IsHeadingLike_any_tag(pg, elem, t) ==
    LET elem_text == Strip(ElemText(pg, elem))
    IN  /\ Len(elem_text) < HeadingMaxLen
        /\ Contains(LowerStr(elem_text), LowerStr(t))

\* lines 129-136: the first short, heading-like element that names the tier
IsHeadingLike(pg, elem, t) ==
    LET elem_text == Strip(ElemText(pg, elem))
    IN  /\ Len(elem_text) < HeadingMaxLen
        /\ Contains(LowerStr(elem_text), LowerStr(t))
        /\ LowerStr(pg[elem].tag) \in HeadingTags

FindHeading(pg, t) ==
    LET tier_elements == FindByTextContains(pg, t)
        ok == {k \in 1..Len(tier_elements) :
                  IsHeadingLike(pg, tier_elements[k], t)}
    IN  IF ok = {} THEN 0
        ELSE tier_elements[CHOOSE k \in ok : \A j \in ok : k <= j]

\* line 162-163
OtherMentions(names, t, text) ==
    Cardinality({k \in 1..Len(names) :
                    /\ LowerStr(names[k]) # LowerStr(t)
                    /\ Contains(text, names[k])})

\* line 166: re.search(r'\$|free|contact', text, re.IGNORECASE)
HasPriceIndicator(text) ==
    LET low == LowerStr(text)
    IN  Contains(low, "$") \/ Contains(low, "free") \/ Contains(low, "contact")

\* faulty variant of Score: the penalty is half the list-item bonus
Score_light_penalty(has_price, other_mentions, li_count, text_len) ==
    SizeDivisor * ((IF has_price THEN PriceBonus ELSE 0)
                       - other_mentions * (ListBonus \div 2)
                       + (IF MinListItems <= li_count /\ li_count <= MaxListItems
                          THEN ListBonus ELSE 0))
        - text_len

\* faulty variant of Score: the penalty is charged once, however many other
\* labels are found
Score_single_penalty(has_price, other_mentions, li_count, text_len) ==
    SizeDivisor * ((IF has_price THEN PriceBonus ELSE 0)
                       - (IF other_mentions > 0 THEN OtherTierPenalty ELSE 0)
                       + (IF MinListItems <= li_count /\ li_count <= MaxListItems
                          THEN ListBonus ELSE 0))
        - text_len

\* lines 172-178, in units of 1/SizeDivisor so that the score is an integer;
\* the comparison agrees with the float comparison of the code as long as no
\* two scored texts differ in length by a multiple of 2000 characters
Score(has_price, other_mentions, li_count, text_len) ==
    SizeDivisor * ((IF has_price THEN PriceBonus ELSE 0)
                       - other_mentions * OtherTierPenalty
                       + (IF MinListItems <= li_count /\ li_count <= MaxListItems
                          THEN ListBonus ELSE 0))
        - text_len

\* faulty variant of Better: a candidate must also reach a score of zero
Better_nonnegative(score, best) == score > best /\ score >= 0

\* faulty variant of Better: an equal score replaces the best so far too
Better_or_equal(score, best) == score >= best

\* line 180: a strictly higher score replaces the best so far
Better(score, best) == score > best

ScoreOf(pg, n, names, t) ==
    LET text == ElemText(pg, n)
    IN  Score(HasPriceIndicator(text), OtherMentions(names, t, text),
              Len(FindByTag(pg, n, "li")), Len(text))

\* faulty variant of TooSmallOrTooLarge: no upper bound
TooSmallOrTooLarge_no_upper(text_len) == text_len < MinTextLen

\* line 158: if text_len < 50 or text_len > 5000
TooSmallOrTooLarge(text_len) ==
    text_len < MinTextLen \/ text_len > MaxTextLen

\* faulty variant of initial_best_score: the scan starts from a best of 0
initial_best_score_zero == 0 * SizeDivisor

\* line 148: best_score = -999, in units of 1/SizeDivisor
initial_best_score == InitialBestScore * SizeDivisor

\* the locals of one scored level (lines 158-178)
Scored(elem, has_price, other_mentions, li_count, text_len) ==
    [element |-> elem, has_price |-> has_price,
     other_mentions |-> other_mentions, li_count |-> li_count,
     text_len |-> text_len,
     score |-> Score(has_price, other_mentions, li_count, text_len)]

Candidate(pg, n, names, t) ==
    LET text == ElemText(pg, n)
    IN  Scored(n, HasPriceIndicator(text), OtherMentions(names, t, text),
               Len(FindByTag(pg, n, "li")), Len(text))

\* np.nan (normalize_price) and None (standardize_price): no numeric value
NoValue == [has |-> FALSE, cents |-> 0]

\* the float n.dd, held as the integer 100 * n + dd
Value(cents) == [has |-> TRUE, cents |-> cents]

\* the columns of the ETL steps before they are computed
EtlIdle ==
    /\ Tier_Level = 0
    /\ etl_Price_Numeric = NoValue
    /\ transform_Price_Numeric = NoValue
    /\ Feature_Count = <<>>
    /\ Features_clean = <<>>

\* main is not running
MainIdle ==
    /\ companies_df = <<>>
    /\ scrape_outcome = <<>>
    /\ row_i = 0
    /\ results = <<>>
    /\ csv_files = <<>>
    /\ driver_quit = FALSE

\* generate_users is not running
UsersIdle ==
    /\ pricing_df = <<>>
    /\ users = <<>>

\* scrape_pricing has not been called before
NoResult ==
    <<[Tier |-> "", Price |-> "", Features |-> "", features |-> <<>>]>>

\* no driver call raises
NoFault == [tier |-> 0, op |-> "none", at |-> 0]

\* the driver call `op` at position `at` (ascent level or list-item index)
\* raises while the current tier is handled
Raises(op, at) == fault.tier = ti /\ fault.op = op /\ fault.at = at

\* `continue` of the tier loop, and its end (line 234)
NextTier ==
    /\ ti' = ti + 1
    /\ IF ti + 1 > Len(tier_names)
       THEN pc' = "done" /\ tier' = tier
       ELSE pc' = "heading" /\ tier' = tier_names[ti + 1]

\* faulty variant of G_HeadingNotFound: a placeholder record is emitted for
\* the tier that has no heading
G_HeadingNotFound_placeholder ==
    /\ mode = "generic"
    /\ pc = "heading"
    /\ ~Raises("heading", 0)
    /\ FindHeading(page, tier) = 0
    /\ tier_heading' = 0
    /\ pricing_data' = Append(pricing_data,
                              [Tier |-> tier, Price |-> "N/A",
                               Features |-> "N/A", features |-> <<>>])
    /\ NextTier
    /\ UNCHANGED <<mode, fault, mainVars, userVars, previous_result, etlVars, scored, container_text, price, page,
                   tier_names, current, level, best_container, best_score,
                   containers_by_size, features, li_i>>

\* lines 138-140: no heading, the tier is skipped
G_HeadingNotFound ==
    /\ mode = "generic"
    /\ pc = "heading"
    /\ ~Raises("heading", 0)
    /\ FindHeading(page, tier) = 0
    /\ tier_heading' = 0
    /\ NextTier
    /\ UNCHANGED <<mode, fault, mainVars, userVars, previous_result, etlVars, scored, container_text, price, page, tier_names, current,
                   level, best_container, best_score, containers_by_size,
                   features, li_i, pricing_data>>

\* lines 142-148
G_HeadingFound ==
    /\ mode = "generic"
    /\ pc = "heading"
    /\ ~Raises("heading", 0)
    /\ FindHeading(page, tier) # 0
    /\ tier_heading' = FindHeading(page, tier)
    /\ current' = FindHeading(page, tier)
    /\ best_container' = 0
    /\ best_score' = initial_best_score
    /\ scored' = <<>>
    /\ level' = 0
    /\ pc' = "ascend"
    /\ UNCHANGED <<mode, fault, mainVars, userVars, previous_result, etlVars, priceVars, page, tier_names, ti, containers_by_size,
                   features, li_i, pricing_data>>

\* line 151 with current = None: the script raises outside the inner try,
\* the handler of lines 230-232 ends the tier
G_AscendPastRoot ==
    /\ mode = "generic"
    /\ pc = "ascend"
    /\ level < AscentLevels
    /\ current = 0
    /\ NextTier
    /\ UNCHANGED <<mode, fault, mainVars, userVars, previous_result, etlVars, scored, container_text, price, page, tier_names,
                   tier_heading, current, level, best_container, best_score,
                   containers_by_size, features, li_i, pricing_data>>

\* lines 150-185: one iteration of the ascent
G_AscendLevel ==
    /\ mode = "generic"
    /\ pc = "ascend"
    /\ level < AscentLevels
    /\ current # 0
    /\ ~Raises("parent", level)
    /\ level' = level + 1
    /\ current' = ParentElement(page, current)
    /\ LET up == ParentElement(page, current)
       IN  IF up = 0 \/ Raises("text", level)
           THEN \* None.text raises AttributeError, or the driver raises at
                \* line 154: except Exception, continue
                UNCHANGED <<container_text, best_container, best_score,
                            scored>>
           ELSE LET text == ElemText(page, up)
                    text_len == Len(text)
                    cand == Candidate(page, up, tier_names, tier)
                IN  /\ container_text' = text
                    /\ IF TooSmallOrTooLarge(text_len)
                       THEN UNCHANGED <<best_container, best_score, scored>>
                       ELSE IF Raises("count", level)
                       THEN \* line 169 raises: except Exception, continue
                            UNCHANGED <<best_container, best_score, scored>>
                       ELSE /\ scored' = Append(scored, cand)
                            /\ IF Better(cand.score, best_score)
                               THEN /\ best_score' = cand.score
                                    /\ best_container' = up
                               ELSE UNCHANGED <<best_container, best_score>>
    /\ UNCHANGED <<mode, fault, mainVars, userVars, previous_result, etlVars, pc, tier, price, page, tier_names, ti, tier_heading,
                   containers_by_size, features, li_i, pricing_data>>

\* lines 187-189
G_NoContainer ==
    /\ mode = "generic"
    /\ pc = "ascend"
    /\ level = AscentLevels
    /\ best_container = 0
    /\ NextTier
    /\ UNCHANGED <<mode, fault, mainVars, userVars, previous_result, etlVars, scored, container_text, price, page, tier_names,
                   tier_heading, current, level, best_container, best_score,
                   containers_by_size, features, li_i, pricing_data>>

\* lines 191-199
G_ExtractPrice ==
    /\ mode = "generic"
    /\ pc = "ascend"
    /\ level = AscentLevels
    /\ best_container # 0
    /\ ~Raises("price", 0)
    /\ container_text' = ElemText(page, best_container)
    /\ price' = extract_price(ElemText(page, best_container), tier)
    /\ features' = <<>>
    /\ li_i' = 1
    /\ pc' = "features"
    /\ UNCHANGED <<mode, fault, mainVars, userVars, previous_result, etlVars, scored, tier, page, tier_names, ti, tier_heading, current,
                   level, best_container, best_score, containers_by_size,
                   pricing_data>>

\* faulty variant of PassesFilters: the upper length limit left out
PassesFilters_no_upper(feature_text, feats) ==
    /\ feature_text # ""
    /\ ~(Len(feature_text) < MinFeatureLen)
    /\ ~InList(feature_text, feats)

\* lines 205-212: the quality filters of one list item
PassesFilters(feature_text, feats) ==
    /\ feature_text # ""
    /\ ~(Len(feature_text) < MinFeatureLen)
    /\ ~(Len(feature_text) > MaxFeatureLen)
    /\ ~InList(feature_text, feats)

\* lines 202-216: what one list item text does to the feature list
AddFeature(feats, li_text) ==
    LET feature_text == Strip(li_text)
    IN  IF PassesFilters(feature_text, feats)
        THEN Append(feats, Strip(ReplaceNewlines(feature_text)))
        ELSE feats

\* faulty variant of list_items: the slice [:30] left out
list_items_uncapped == FindByTag(page, best_container, "li")

\* lines 199-201: list_items[:30]
list_items == Take(FindByTag(page, best_container, "li"), FeatureCap)

\* lines 201-216: one iteration of the feature loop
G_FeatureItem ==
    /\ mode = "generic"
    /\ pc = "features"
    /\ ~Raises("list", 0)
    /\ ~Raises("item", li_i)
    /\ li_i <= Len(list_items)
    /\ features' = AddFeature(features, ElemText(page, list_items[li_i]))
    /\ li_i' = li_i + 1
    /\ UNCHANGED <<mode, fault, mainVars, userVars, previous_result, etlVars, scored, pc, priceVars, page, tier_names, ti, tier_heading,
                   current, level, best_container, best_score,
                   containers_by_size, pricing_data>>

\* lines 224-228: the record of one tier
Record(t, p, feats) ==
    [Tier |-> t, Price |-> p,
     Features |-> IF feats # <<>> THEN JoinWith(feats, " | ") ELSE "N/A",
     features |-> feats]

G_AppendRecord ==
    /\ mode = "generic"
    /\ pc = "features"
    /\ ~Raises("list", 0)
    /\ li_i > Len(list_items)
    /\ pricing_data' = Append(pricing_data, Record(tier, price, features))
    /\ NextTier
    /\ UNCHANGED <<mode, fault, mainVars, userVars, previous_result, etlVars, scored, container_text, price, page, tier_names,
                   tier_heading, current, level, best_container, best_score,
                   containers_by_size, features, li_i>>

\* lines 121-136 raise (find_elements, elem.text or elem.tag_name): the
\* handler of lines 230-232 ends the tier
G_HeadingRaises ==
    /\ mode = "generic"
    /\ pc = "heading"
    /\ Raises("heading", 0)
    /\ NextTier
    /\ UNCHANGED <<mode, fault, mainVars, userVars, previous_result, etlVars, scored, container_text, price, page,
                   tier_names, tier_heading, current, level, best_container,
                   best_score, containers_by_size, features, li_i,
                   pricing_data>>

\* faulty variant of G_ParentRaises: the exception leaves the tier loop
G_ParentRaises_escapes ==
    /\ mode = "generic"
    /\ pc = "ascend"
    /\ level < AscentLevels
    /\ current # 0
    /\ Raises("parent", level)
    /\ pc' = "done"
    /\ UNCHANGED <<mode, fault, mainVars, userVars, previous_result, etlVars, priceVars, scrapeVars>>

\* line 151 raises on an existing element: it stands outside the inner try,
\* the handler of lines 230-232 ends the tier
G_ParentRaises ==
    /\ mode = "generic"
    /\ pc = "ascend"
    /\ level < AscentLevels
    /\ current # 0
    /\ Raises("parent", level)
    /\ NextTier
    /\ UNCHANGED <<mode, fault, mainVars, userVars, previous_result, etlVars, scored, container_text, price, page,
                   tier_names, tier_heading, current, level, best_container,
                   best_score, containers_by_size, features, li_i,
                   pricing_data>>

\* line 192 raises (best_container.text): the handler of lines 230-232 ends
\* the tier
G_PriceRaises ==
    /\ mode = "generic"
    /\ pc = "ascend"
    /\ level = AscentLevels
    /\ best_container # 0
    /\ Raises("price", 0)
    /\ NextTier
    /\ UNCHANGED <<mode, fault, mainVars, userVars, previous_result, etlVars, scored, container_text, price, page,
                   tier_names, tier_heading, current, level, best_container,
                   best_score, containers_by_size, features, li_i,
                   pricing_data>>

\* faulty variant of G_FeaturesRaise: the exception ends the tier without a
\* record
G_FeaturesRaise_drops ==
    /\ mode = "generic"
    /\ pc = "features"
    /\ \/ Raises("list", 0) /\ li_i = 1
       \/ ~Raises("list", 0) /\ Raises("item", li_i)
                             /\ li_i <= Len(list_items)
    /\ NextTier
    /\ UNCHANGED <<mode, fault, mainVars, userVars, previous_result, etlVars, scored, container_text, price, page,
                   tier_names, tier_heading, current, level, best_container,
                   best_score, containers_by_size, features, li_i,
                   pricing_data>>

\* line 199 or line 202 raises inside the try of line 198: the handler of
\* lines 220-221 ends the feature loop, the record is appended with the
\* features collected so far (lines 224-228)
G_FeaturesRaise ==
    /\ mode = "generic"
    /\ pc = "features"
    /\ \/ Raises("list", 0) /\ li_i = 1
       \/ ~Raises("list", 0) /\ Raises("item", li_i)
                             /\ li_i <= Len(list_items)
    /\ pricing_data' = Append(pricing_data, Record(tier, price, features))
    /\ NextTier
    /\ UNCHANGED <<mode, fault, mainVars, userVars, previous_result, etlVars, scored, container_text, price, page,
                   tier_names, tier_heading, current, level, best_container,
                   best_score, containers_by_size, features, li_i>>

GenericFaultNext ==
    \/ G_HeadingRaises
    \/ G_ParentRaises
    \/ G_PriceRaises
    \/ G_FeaturesRaise

GenericNext ==
    \/ G_HeadingNotFound
    \/ G_HeadingFound
    \/ G_AscendPastRoot
    \/ G_AscendLevel
    \/ G_NoContainer
    \/ G_ExtractPrice
    \/ G_FeatureItem
    \/ G_AppendRecord

\* ------------------------------------------------------------------------
\* scrape_notion_pricing (Notion scraper): the loop over the tier labels
\* ------------------------------------------------------------------------

NotionTierNames == <<"Free", "Plus", "Business", "Enterprise">>

NotionHeadingMaxLen == 30

NotionAscentLevels == 8

NotionMinItems == 5

NotionMaxItems == 35

NotionFeatureCap == 20

NotionMinFeatureLen == 5

\* driver.find_elements(By.XPATH, "//*[text()='T']")
FindByTextEquals(pg, t) ==
    LET Hit(m) == pg[m].own = t
    IN  NodesWhere(pg, Hit)

\* lines 49-55
NotionFindHeading(pg, t) ==
    LET tier_elements == FindByTextEquals(pg, t)
        ok == {k \in 1..Len(tier_elements) :
                  Len(Strip(ElemText(pg, tier_elements[k])))
                      < NotionHeadingMaxLen}
    IN  IF ok = {} THEN 0
        ELSE tier_elements[CHOOSE k \in ok : \A j \in ok : k <= j]

\* lines 78-79
NotionOtherCount(names, t, text) ==
    Cardinality({k \in 1..Len(names) :
                    names[k] # t /\ Contains(text, names[k])})

\* faulty variant of NotionBest: the fallback keeps the last of the smallest
NotionBest_last_smallest(cands) ==
    LET good == {k \in 1..Len(cands) :
                    /\ NotionMinItems <= cands[k].li_count
                    /\ cands[k].li_count <= NotionMaxItems
                    /\ cands[k].other_tiers = 0}
        least == {k \in 1..Len(cands) :
                    \A j \in 1..Len(cands) :
                        cands[k].li_count <= cands[j].li_count}
    IN  IF good # {}
        THEN cands[CHOOSE k \in good : \A j \in good : k <= j]
        ELSE cands[CHOOSE k \in least : \A j \in least : k >= j]

\* lines 91-99: the first good candidate, else the first of the smallest
NotionBest(cands) ==
    LET good == {k \in 1..Len(cands) :
                    /\ NotionMinItems <= cands[k].li_count
                    /\ cands[k].li_count <= NotionMaxItems
                    /\ cands[k].other_tiers = 0}
        least == {k \in 1..Len(cands) :
                    \A j \in 1..Len(cands) :
                        cands[k].li_count <= cands[j].li_count}
    IN  IF good # {}
        THEN cands[CHOOSE k \in good : \A j \in good : k <= j]
        ELSE cands[CHOOSE k \in least : \A j \in least : k <= j]

\* re.search(r'\$\d+', s)
NotionDollarSearch(s) ==
    LET starts == {i \in 1..(Len(s) - 1) :
                      Char(s, i) = "$" /\ IsDigit(Char(s, i + 1))}
    IN  IF starts = {} THEN NoMatch
        ELSE LET i == CHOOSE a \in starts : \A b \in starts : a <= b
             IN  [found |-> TRUE, group0 |-> SubSeq(s, i, DigitsEnd(s, i + 1)),
                  group1 |-> ""]

\* lines 109-121
NotionPrice(text, t) ==
    LET price_text == LowerStr(text)
    IN  IF Contains(price_text, "contact sales")
              \/ Contains(price_text, "contact us")
        THEN "Contact sales"
        ELSE IF NotionDollarSearch(text).found
        THEN NotionDollarSearch(text).group0
        ELSE IF t = "Free" \/ Contains(price_text, "free")
        THEN "Free"
        ELSE IF t = "Enterprise"
        THEN "Contact sales"
        ELSE "N/A"

\* lines 57-59
N_HeadingNotFound ==
    /\ mode = "notion"
    /\ pc = "heading"
    /\ ~Raises("heading", 0)
    /\ NotionFindHeading(page, tier) = 0
    /\ tier_heading' = 0
    /\ NextTier
    /\ UNCHANGED <<mode, fault, mainVars, userVars, previous_result, etlVars, scored, container_text, price, page, tier_names, current,
                   level, best_container, best_score, containers_by_size,
                   features, li_i, pricing_data>>

\* lines 61-65
N_HeadingFound ==
    /\ mode = "notion"
    /\ pc = "heading"
    /\ ~Raises("heading", 0)
    /\ NotionFindHeading(page, tier) # 0
    /\ tier_heading' = NotionFindHeading(page, tier)
    /\ current' = NotionFindHeading(page, tier)
    /\ containers_by_size' = <<>>
    /\ level' = 0
    /\ pc' = "ascend"
    /\ UNCHANGED <<mode, fault, mainVars, userVars, previous_result, etlVars, scored, priceVars, page, tier_names, ti, best_container,
                   best_score, features, li_i, pricing_data>>

\* line 69 with current = None: the script raises outside the inner try,
\* the handler of lines 144-146 ends the tier
N_AscendPastRoot ==
    /\ mode = "notion"
    /\ pc = "ascend"
    /\ level < NotionAscentLevels
    /\ current = 0
    /\ NextTier
    /\ UNCHANGED <<mode, fault, mainVars, userVars, previous_result, etlVars, scored, container_text, price, page, tier_names,
                   tier_heading, current, level, best_container, best_score,
                   containers_by_size, features, li_i, pricing_data>>

\* lines 68-88: one iteration of the ascent
N_AscendLevel ==
    /\ mode = "notion"
    /\ pc = "ascend"
    /\ level < NotionAscentLevels
    /\ current # 0
    /\ ~Raises("parent", level)
    /\ level' = level + 1
    /\ current' = ParentElement(page, current)
    /\ LET up == ParentElement(page, current)
       IN  IF up = 0 \/ Raises("count", level)
           THEN \* None.find_elements raises, or the driver raises at line
                \* 72: bare except, pass
                UNCHANGED containers_by_size
           ELSE LET li_count == Len(FindByTag(page, up, "li"))
                IN  IF li_count > 0 /\ Raises("text", level)
                    THEN \* line 77 raises: bare except, pass
                         UNCHANGED containers_by_size
                    ELSE IF li_count > 0
                    THEN containers_by_size' =
                            Append(containers_by_size,
                                   [element |-> up,
                                    li_count |-> li_count,
                                    level |-> level,
                                    other_tiers |->
                                        NotionOtherCount(tier_names, tier,
                                            ElemText(page, up))])
                    ELSE UNCHANGED containers_by_size
    /\ UNCHANGED <<mode, fault, mainVars, userVars, previous_result, etlVars, scored, pc, priceVars, page, tier_names, ti, tier_heading,
                   best_container, best_score, features, li_i, pricing_data>>

\* lines 101-103
N_NoContainer ==
    /\ mode = "notion"
    /\ pc = "ascend"
    /\ level = NotionAscentLevels
    /\ containers_by_size = <<>>
    /\ NextTier
    /\ UNCHANGED <<mode, fault, mainVars, userVars, previous_result, etlVars, scored, container_text, price, page, tier_names,
                   tier_heading, current, level, best_container, best_score,
                   containers_by_size, features, li_i, pricing_data>>

\* lines 105-128
N_ExtractPrice ==
    /\ mode = "notion"
    /\ pc = "ascend"
    /\ level = NotionAscentLevels
    /\ containers_by_size # <<>>
    /\ ~Raises("price", 0)
    /\ best_container' = NotionBest(containers_by_size).element
    /\ container_text' =
           ElemText(page, NotionBest(containers_by_size).element)
    /\ price' =
           NotionPrice(ElemText(page, NotionBest(containers_by_size).element),
                       tier)
    /\ features' = <<>>
    /\ li_i' = 1
    /\ pc' = "features"
    /\ UNCHANGED <<mode, fault, mainVars, userVars, previous_result, etlVars, scored, tier, page, tier_names, ti, tier_heading, current,
                   level, best_score, containers_by_size, pricing_data>>

\* lines 130-132: what one list item text does to the feature list
NotionAddFeature(feats, li_text) ==
    LET feat == Strip(li_text)
    IN  IF feat # "" /\ Len(feat) > NotionMinFeatureLen /\ ~InList(feat, feats)
        THEN Append(feats, feat)
        ELSE feats

\* lines 128-129: lis[:20]
lis == Take(FindByTag(page, best_container, "li"), NotionFeatureCap)

\* lines 129-132: one iteration of the feature loop
N_FeatureItem ==
    /\ mode = "notion"
    /\ pc = "features"
    /\ ~Raises("list", 0)
    /\ ~Raises("item", li_i)
    /\ li_i <= Len(lis)
    /\ features' = NotionAddFeature(features, ElemText(page, lis[li_i]))
    /\ li_i' = li_i + 1
    /\ UNCHANGED <<mode, fault, mainVars, userVars, previous_result, etlVars, scored, pc, priceVars, page, tier_names, ti, tier_heading,
                   current, level, best_container, best_score,
                   containers_by_size, pricing_data>>

\* lines 138-142
N_AppendRecord ==
    /\ mode = "notion"
    /\ pc = "features"
    /\ ~Raises("list", 0)
    /\ li_i > Len(lis)
    /\ pricing_data' = Append(pricing_data, Record(tier, price, features))
    /\ NextTier
    /\ UNCHANGED <<mode, fault, mainVars, userVars, previous_result, etlVars, scored, container_text, price, page, tier_names,
                   tier_heading, current, level, best_container, best_score,
                   containers_by_size, features, li_i>>

\* lines 49-55 raise: the handler of lines 144-146 ends the tier
N_HeadingRaises ==
    /\ mode = "notion"
    /\ pc = "heading"
    /\ Raises("heading", 0)
    /\ NextTier
    /\ UNCHANGED <<mode, fault, mainVars, userVars, previous_result, etlVars, scored, container_text, price, page,
                   tier_names, tier_heading, current, level, best_container,
                   best_score, containers_by_size, features, li_i,
                   pricing_data>>

\* line 69 raises on an existing element: it stands outside the inner try,
\* the handler of lines 144-146 ends the tier
N_ParentRaises ==
    /\ mode = "notion"
    /\ pc = "ascend"
    /\ level < NotionAscentLevels
    /\ current # 0
    /\ Raises("parent", level)
    /\ NextTier
    /\ UNCHANGED <<mode, fault, mainVars, userVars, previous_result, etlVars, scored, container_text, price, page,
                   tier_names, tier_heading, current, level, best_container,
                   best_score, containers_by_size, features, li_i,
                   pricing_data>>

\* line 109 raises (container.text): the handler of lines 144-146 ends the
\* tier
N_PriceRaises ==
    /\ mode = "notion"
    /\ pc = "ascend"
    /\ level = NotionAscentLevels
    /\ containers_by_size # <<>>
    /\ Raises("price", 0)
    /\ best_container' = NotionBest(containers_by_size).element
    /\ NextTier
    /\ UNCHANGED <<mode, fault, mainVars, userVars, previous_result, etlVars, scored, container_text, price, page,
                   tier_names, tier_heading, current, level, best_score,
                   containers_by_size, features, li_i, pricing_data>>

\* line 128 or line 130 raises inside the try of line 127: except, pass;
\* the record is appended with the features collected so far
N_FeaturesRaise ==
    /\ mode = "notion"
    /\ pc = "features"
    /\ \/ Raises("list", 0) /\ li_i = 1
       \/ ~Raises("list", 0) /\ Raises("item", li_i) /\ li_i <= Len(lis)
    /\ pricing_data' = Append(pricing_data, Record(tier, price, features))
    /\ NextTier
    /\ UNCHANGED <<mode, fault, mainVars, userVars, previous_result, etlVars, scored, container_text, price, page,
                   tier_names, tier_heading, current, level, best_container,
                   best_score, containers_by_size, features, li_i>>

NotionFaultNext ==
    \/ N_HeadingRaises
    \/ N_ParentRaises
    \/ N_PriceRaises
    \/ N_FeaturesRaise

NotionNext ==
    \/ N_HeadingNotFound
    \/ N_HeadingFound
    \/ N_AscendPastRoot
    \/ N_AscendLevel
    \/ N_NoContainer
    \/ N_ExtractPrice
    \/ N_FeatureItem
    \/ N_AppendRecord

\* ------------------------------------------------------------------------
\* Pages
\* ------------------------------------------------------------------------

ShallowDepth == 3

MidDepth == 7

MaxDepth == 9

ManyItems == 31

HeadingDepths == {ShallowDepth, MidDepth, MaxDepth}

RECURSIVE Repeat(_, _)
Repeat(c, n) ==
    IF n = 0 THEN ""
    ELSE IF n = 1 THEN c
    ELSE Repeat(c, n \div 2) \o Repeat(c, n - (n \div 2))

TwoDigits(i) ==
    Char("0123456789", ((i \div 10) % 10) + 1)
        \o Char("0123456789", (i % 10) + 1)

Many(n) == [i \in 1..n |-> "Feature " \o TwoDigits(i)]

\* html > body > div > ... : a chain of k nested elements
Chain(k) ==
    [i \in 1..k |->
        Node(IF i = 1 THEN "html" ELSE IF i = 2 THEN "body" ELSE "div",
             i - 1, "")]

\* a card block: div > (h3 label, div price, ul > li*)
Card(at, parent, c) ==
    <<Node("div", parent, ""), Node("h3", at, c.label),
      Node("div", at, c.price), Node("ul", at, "")>>
        \o [i \in 1..Len(c.items) |-> Node("li", at + 3, c.items[i])]

\* the same content laid directly under the parent, with no card element
Flat(at, parent, c) ==
    <<Node("h3", parent, c.label), Node("div", parent, c.price),
      Node("ul", parent, "")>>
        \o [i \in 1..Len(c.items) |-> Node("li", at + 2, c.items[i])]

RECURSIVE AddCards(_, _, _)
AddCards(nodes, parent, cards) ==
    IF cards = <<>> THEN nodes
    ELSE AddCards(nodes \o Card(Len(nodes) + 1, parent, Head(cards)),
                  parent, Tail(cards))

RECURSIVE AddFlat(_, _, _)
AddFlat(nodes, parent, cards) ==
    IF cards = <<>> THEN nodes
    ELSE AddFlat(nodes \o Flat(Len(nodes) + 1, parent, Head(cards)),
                 parent, Tail(cards))

\* sibling cards under one common parent; each heading has d ancestors
CardsPage(d, cards) == AddCards(Chain(d - 1), d - 1, cards)

\* one wrapping container holding everything; each heading has d ancestors
WrapperPage(d, cards) == AddFlat(Chain(d), d, cards)

FreeCard ==
    [label |-> "Free", price |-> "$0",
     items |-> <<"Up to 10 members", "Basic page analytics",
                 "7 day page history", "Upgrade to Pro anytime",
                 "Community forum help">>]

EnterpriseCard ==
    [label |-> "Enterprise", price |-> "Contact sales",
     items |-> <<"SAML single sign-on", "Audit log export",
                 "Dedicated success manager", "Advanced security controls",
                 "Unlimited page history">>]

GoodItems ==
    <<"Unlimited projects", "Unlimited file uploads", "30 day page history",
      "Invite 100 guests", "Priority support">>

OddItemLists ==
    {<<"", "ok", "Unlimited projects", "Unlimited projects", Repeat("x", 300)>>,
     <<"Tasks", "Guests", Repeat("y", 250), Repeat("z", 251), "  Docs  ">>,
     <<"Fast\nsync", "Fast sync", "Fast\nsync", "Team wiki", "Team wiki">>,
     <<"a", "b", "c", "d", "e">>,
     Many(ManyItems)}

MidLabels == {"Pro", "Plus"}

\* headings written in another letter case than the requested label
CaseLabels == {"PRO", "plus"}

MidPrices ==
    {"$12.50 per month", "49 per month, billed annually",
     "Contact us for pricing", "Free forever for teams", "Custom quote"}

MidCard(label, p, items) == [label |-> label, price |-> p, items |-> items]

\* text lengths at both ends of the size band of line 158
BandLens == {MinTextLen - 1, MinTextLen, MaxTextLen, MaxTextLen + 1}

\* the one list item that brings the text of a "Pro" card priced "$5" to n
\* characters (label, price and item are rendered on three lines)
BandItem(n) == Repeat("x", n - Len("Pro") - Len("$5") - 2)

ThreeCards(label, p, items) ==
    <<FreeCard, MidCard(label, p, items), EnterpriseCard>>

Pages ==
    {CardsPage(d, ThreeCards(l, p, GoodItems)) :
        d \in HeadingDepths, l \in MidLabels, p \in MidPrices}
    \cup {CardsPage(MaxDepth, ThreeCards(l, "$12.50 per month", items)) :
        l \in MidLabels, items \in OddItemLists}
    \cup {WrapperPage(d, ThreeCards(l, "$12.50 per month", GoodItems)) :
        d \in {ShallowDepth, MaxDepth}, l \in MidLabels}
    \cup {CardsPage(MaxDepth, <<MidCard(l, "$5", items)>>) :
        l \in MidLabels, items \in {<<>>, <<"alpha", "beta">>}}
    \cup {CardsPage(MaxDepth, ThreeCards(l, "$12.50 per month", GoodItems)) :
        l \in CaseLabels}
    \cup {CardsPage(MaxDepth, <<MidCard("Pro", "$5", <<BandItem(n)>>)>>) :
        n \in BandLens}
    \cup {CardsPage(MaxDepth,
                    ThreeCards(l, "$12.50 per month", <<"alpha", "beta">>)) :
        l \in MidLabels}

GenericTierLists == {<<"Free", "Pro", "Enterprise">>}

\* ------------------------------------------------------------------------
\* Specification Spec: a scraper run over one page
\* ------------------------------------------------------------------------

Init ==
    /\ mode \in {"generic", "notion"}
    /\ page \in Pages
    /\ tier_names \in (IF mode = "generic" THEN GenericTierLists
                                            ELSE {NotionTierNames})
    /\ fault = NoFault
    /\ previous_result = NoResult
    /\ EtlIdle
    /\ MainIdle
    /\ UsersIdle
    /\ ti = 1
    /\ tier = tier_names[1]
    /\ pc = "heading"
    /\ container_text = ""
    /\ price = "none"
    /\ tier_heading = 0
    /\ current = 0
    /\ level = 0
    /\ best_container = 0
    /\ best_score = 0
    /\ scored = <<>>
    /\ containers_by_size = <<>>
    /\ features = <<>>
    /\ li_i = 0
    /\ pricing_data = <<>>

Next == GenericNext \/ NotionNext

Spec == Init /\ [][Next]_vars

\* ------------------------------------------------------------------------
\* scrape_pricing called a second time on the same page with the same tier
\* labels
\* ------------------------------------------------------------------------

\* faulty variant of G_CallAgain: the records of the first call are kept, as
\* if pricing_data lived outside the function
G_CallAgain_keeps_records ==
    /\ mode = "generic"
    /\ pc = "done"
    /\ previous_result = NoResult
    /\ previous_result' = pricing_data
    /\ ti' = 1
    /\ tier' = tier_names[1]
    /\ pc' = "heading"
    /\ UNCHANGED <<mode, fault, mainVars, userVars, etlVars, container_text, price, page,
                   tier_names, tier_heading, current, level, best_container, best_score,
                   scored, containers_by_size, features, li_i, pricing_data>>

\* lines 116-119 of a second call: pricing_data = [] and the loop starts
\* over; the other locals are only written later, so whatever the first call
\* left in them is kept here
G_CallAgain ==
    /\ mode = "generic"
    /\ pc = "done"
    /\ previous_result = NoResult
    /\ previous_result' = pricing_data
    /\ pricing_data' = <<>>
    /\ ti' = 1
    /\ tier' = tier_names[1]
    /\ pc' = "heading"
    /\ UNCHANGED <<mode, fault, mainVars, userVars, etlVars, container_text, price, page,
                   tier_names, tier_heading, current, level, best_container, best_score,
                   scored, containers_by_size, features, li_i>>

NextTwice == Next \/ G_CallAgain

SpecTwice == Init /\ [][NextTwice]_vars

\* ------------------------------------------------------------------------
\* The same runs with one driver call that raises (a stale element, a lost
\* session): the handlers of the scrapers become reachable
\* ------------------------------------------------------------------------

MaxFaultLevel == 1

MaxFaultItem == 2

Faults ==
    {[tier |-> k, op |-> o, at |-> 0] :
        k \in 1..3, o \in {"heading", "price", "list"}}
    \cup {[tier |-> k, op |-> o, at |-> l] :
        k \in 1..3, o \in {"parent", "text", "count"},
        l \in 0..MaxFaultLevel}
    \cup {[tier |-> k, op |-> "item", at |-> i] :
        k \in 1..3, i \in 1..MaxFaultItem}

FaultPages ==
    {CardsPage(MaxDepth, ThreeCards(l, "$12.50 per month", GoodItems)) :
        l \in MidLabels}

InitFault ==
    /\ mode \in {"generic", "notion"}
    /\ \/ fault = NoFault /\ page \in Pages
       \/ fault \in Faults /\ page \in FaultPages
    /\ tier_names \in (IF mode = "generic" THEN GenericTierLists
                                            ELSE {NotionTierNames})
    /\ previous_result = NoResult
    /\ EtlIdle
    /\ MainIdle
    /\ UsersIdle
    /\ ti = 1
    /\ tier = tier_names[1]
    /\ pc = "heading"
    /\ container_text = ""
    /\ price = "none"
    /\ tier_heading = 0
    /\ current = 0
    /\ level = 0
    /\ best_container = 0
    /\ best_score = 0
    /\ scored = <<>>
    /\ containers_by_size = <<>>
    /\ features = <<>>
    /\ li_i = 0
    /\ pricing_data = <<>>

NextFault == Next \/ GenericFaultNext \/ NotionFaultNext

SpecFault == InitFault /\ [][NextFault]_vars

\* ------------------------------------------------------------------------
\* Specification SpecPrice: the price rules applied to every bounded input
\* ------------------------------------------------------------------------

\* the locals of the scrapers while no scraper runs
LocalsIdle ==
    /\ page = <<>>
    /\ tier_names = <<>>
    /\ ti = 0
    /\ tier_heading = 0
    /\ current = 0
    /\ level = 0
    /\ best_container = 0
    /\ best_score = 0
    /\ scored = <<>>
    /\ containers_by_size = <<>>
    /\ features = <<>>
    /\ li_i = 0
    /\ pricing_data = <<>>

\* nothing but the function under study runs
ScraperIdle ==
    /\ fault = NoFault
    /\ previous_result = NoResult
    /\ EtlIdle
    /\ MainIdle
    /\ UsersIdle
    /\ page = <<>>
    /\ tier_names = <<>>
    /\ ti = 0
    /\ tier_heading = 0
    /\ current = 0
    /\ level = 0
    /\ best_container = 0
    /\ best_score = 0
    /\ scored = <<>>
    /\ containers_by_size = <<>>
    /\ features = <<>>
    /\ li_i = 0
    /\ pricing_data = <<>>

InitPrice ==
    /\ mode = "price"
    /\ container_text \in PriceTexts
    /\ tier \in PriceTiers
    /\ price = "none"
    /\ pc = "call"
    /\ ScraperIdle

CallExtractPrice ==
    /\ mode = "price"
    /\ pc = "call"
    /\ price' = extract_price(container_text, tier)
    /\ pc' = "returned"
    /\ UNCHANGED <<mode, fault, mainVars, userVars, previous_result, etlVars, container_text, tier, scrapeVars>>

\* the Notion scraper's price rules (lines 109-121) on the same inputs
CallNotionPrice ==
    /\ mode = "price"
    /\ pc = "call"
    /\ price' = NotionPrice(container_text, tier)
    /\ pc' = "notion_returned"
    /\ UNCHANGED <<mode, fault, mainVars, userVars, previous_result, etlVars, container_text, tier, scrapeVars>>

NextPrice == CallExtractPrice \/ CallNotionPrice

SpecPrice == InitPrice /\ [][NextPrice]_vars

\* ------------------------------------------------------------------------
\* The score of lines 172-178 on its own: two candidates of one ascent are
\* scored one after the other, their signals drawn from bounded sets
\* ------------------------------------------------------------------------

MaxOther == 2

OtherCounts == 0..MaxOther

\* list-item counts on both sides of the limits of line 176
LiCounts ==
    {MinListItems - 1, MinListItems, MaxListItems, MaxListItems + 1}

\* text lengths inside the band of line 158
TextLens == {MinTextLen, MinTextLen + 1, MaxTextLen}

InitScore ==
    /\ mode = "score"
    /\ pc = "first"
    /\ container_text = ""
    /\ tier = "Pro"
    /\ price = "none"
    /\ ScraperIdle

\* lines 161-178 for one candidate whose signals are given
ScoreCandidate ==
    /\ mode = "score"
    /\ pc \in {"first", "second"}
    /\ \E has_price \in BOOLEAN, other_mentions \in OtherCounts,
          li_count \in LiCounts, text_len \in TextLens :
          scored' = Append(scored, Scored(0, has_price, other_mentions,
                                          li_count, text_len))
    /\ pc' = IF pc = "first" THEN "second" ELSE "compared"
    /\ UNCHANGED <<mode, fault, mainVars, userVars, previous_result, etlVars, priceVars, page, tier_names, ti, tier_heading,
                   current, level, best_container, best_score,
                   containers_by_size, features, li_i, pricing_data>>

NextScore == ScoreCandidate

SpecScore == InitScore /\ [][NextScore]_vars

\* ------------------------------------------------------------------------
\* get_tier_names (scraper.py) and assign_tier_level (etl_pipeline.py)
\* ------------------------------------------------------------------------

\* lines 71-82 of scraper.py
tier_map ==
    [notion |-> <<"Free", "Plus", "Business", "Enterprise">>,
     clickup |-> <<"Free", "Unlimited", "Business", "Enterprise">>,
     asana |-> <<"Personal", "Starter", "Advanced", "Enterprise">>,
     airtable |-> <<"Free", "Team", "Business", "Enterprise">>,
     coda |-> <<"Free", "Pro", "Team", "Enterprise">>,
     trello |-> <<"Free", "Standard", "Premium", "Enterprise">>,
     figma |-> <<"Starter", "Professional", "Organization", "Enterprise">>,
     monday |-> <<"Free", "Basic", "Standard", "Pro", "Enterprise">>,
     linear |-> <<"Free", "Standard", "Plus", "Enterprise">>,
     miro |-> <<"Free", "Starter", "Business", "Enterprise">>]

\* line 84 of scraper.py
get_tier_names(company_name) ==
    IF LowerStr(company_name) \in DOMAIN tier_map
    THEN tier_map[LowerStr(company_name)]
    ELSE <<"Free", "Pro", "Business", "Enterprise">>

\* the keyword lists of lines 106-112 of etl_pipeline.py
Level1Words == {"free", "personal", "starter"}

Level2Words == {"basic", "plus", "pro", "standard", "unlimited", "team"}

Level3Words ==
    {"business", "advanced", "premium", "organization", "professional"}

Level4Words == {"enterprise"}

\* any(word in tier_lower for word in words)
AnyWordIn(words, tier_lower) == \E word \in words : Contains(tier_lower, word)

\* lines 96-115 of etl_pipeline.py
assign_tier_level(tier_name) ==
    LET tier_lower == LowerStr(tier_name)
    IN  IF AnyWordIn(Level1Words, tier_lower) THEN 1
        ELSE IF AnyWordIn(Level2Words, tier_lower) THEN 2
        ELSE IF AnyWordIn(Level3Words, tier_lower) THEN 3
        ELSE IF AnyWordIn(Level4Words, tier_lower) THEN 4
        ELSE 2

Companies ==
    {"Notion", "ClickUp", "Asana", "Airtable", "Coda", "Trello", "Figma",
     "Monday", "Linear", "Miro", "Slack"}

\* every label get_tier_names can return
ReturnedLabels ==
    UNION {{get_tier_names(c)[k] : k \in 1..Len(get_tier_names(c))} :
              c \in Companies}

\* labels that hold no keyword, or keywords of two lists
OtherLabels ==
    {"Growth", "Scale", "Essentials", "Pro Plus", "Free Trial",
     "Business Plus", "Team Enterprise", "Enterprise Grid", "Custom", ""}

\* the labels as listed, as returned, and in other letter cases
LevelLabels ==
    LET base == Level1Words \cup Level2Words \cup Level3Words
                    \cup Level4Words \cup ReturnedLabels \cup OtherLabels
    IN  base \cup {UpperStr(l) : l \in base} \cup {LowerStr(l) : l \in base}

InitLevel ==
    /\ mode = "level"
    /\ tier \in LevelLabels
    /\ container_text = ""
    /\ price = "none"
    /\ pc = "call"
    /\ ScraperIdle

\* etl_pipeline.py:161
CallAssignTierLevel ==
    /\ mode = "level"
    /\ pc = "call"
    /\ Tier_Level' = assign_tier_level(tier)
    /\ pc' = "returned"
    /\ UNCHANGED <<mode, fault, mainVars, userVars, previous_result,
                   etl_Price_Numeric, transform_Price_Numeric, Feature_Count,
                   Features_clean, priceVars, scrapeVars>>

NextLevel == CallAssignTierLevel

SpecLevel == InitLevel /\ [][NextLevel]_vars

\* ------------------------------------------------------------------------
\* normalize_price (etl_pipeline.py) and standardize_price
\* (transform_pricing.py), chained after extract_price
\* ------------------------------------------------------------------------

RECURSIVE IntOfDigits(_)
\* int() of a string of decimal digits
IntOfDigits(d) ==
    IF Len(d) = 0 THEN 0
    ELSE 10 * IntOfDigits(SubSeq(d, 1, Len(d) - 1))
            + ((CHOOSE k \in 1..10 :
                    Char("0123456789", k) = Char(d, Len(d))) - 1)

\* float() of "n" or "n.dd", in hundredths
FloatOf(num) ==
    IF Contains(num, ".")
    THEN 100 * IntOfDigits(SubSeq(num, 1, Len(num) - 3))
            + IntOfDigits(SubSeq(num, Len(num) - 1, Len(num)))
    ELSE 100 * IntOfDigits(num)

\* faulty variant of AmountSearch: the pattern without its optional cents
\* group
AmountSearch_no_cents(s) ==
    LET starts == {i \in 1..Len(s) : IsDigit(Char(s, i))}
    IN  IF starts = {} THEN NoMatch
        ELSE LET i == CHOOSE a \in starts : \A b \in starts : a <= b
                 j == DigitsEnd(s, i)
             IN  [found |-> TRUE, group0 |-> SubSeq(s, i, j),
                  group1 |-> SubSeq(s, i, j)]

\* re.search(r'\$?(\d+(?:\.\d{2})?)', s): the leftmost match starts at the
\* first digit of s, or at a '$' right before it; group 1 is the same
AmountSearch(s) ==
    LET starts == {i \in 1..Len(s) : IsDigit(Char(s, i))}
    IN  IF starts = {} THEN NoMatch
        ELSE LET i == CHOOSE a \in starts : \A b \in starts : a <= b
                 j == DigitsEnd(s, i)
                 e == IF CentsAfter(s, j) THEN j + 3 ELSE j
                 b == IF i > 1 /\ Char(s, i - 1) = "$" THEN i - 1 ELSE i
             IN  [found |-> TRUE, group0 |-> SubSeq(s, b, e),
                  group1 |-> SubSeq(s, i, e)]

\* lines 67-94 of etl_pipeline.py
normalize_price(price_str) ==
    LET stripped == Strip(price_str)
    IN  IF LowerStr(stripped) = "free" THEN Value(0)
        ELSE IF Contains(LowerStr(stripped), "contact") THEN NoValue
        ELSE IF AmountSearch(stripped).found
        THEN Value(FloatOf(AmountSearch(stripped).group1))
        ELSE NoValue

\* lines 10-38 of transform_pricing.py
standardize_price(price_str) ==
    LET lowered == LowerStr(Strip(price_str))
    IN  IF \E keyword \in {"contact", "custom", "enterprise"} :
              Contains(lowered, keyword)
        THEN NoValue
        ELSE IF Contains(lowered, "free") \/ lowered = "$0" THEN Value(0)
        ELSE IF AmountSearch(lowered).found
        THEN Value(FloatOf(AmountSearch(lowered).group1))
        ELSE NoValue

\* etl_pipeline.py:157 on a price returned by extract_price
CallNormalizePrice ==
    /\ mode = "price"
    /\ pc = "returned"
    /\ etl_Price_Numeric' = normalize_price(price)
    /\ pc' = "normalized"
    /\ UNCHANGED <<mode, fault, mainVars, userVars, previous_result, Tier_Level,
                   transform_Price_Numeric, Feature_Count, Features_clean,
                   priceVars, scrapeVars>>

\* transform_pricing.py:85 on the same price
CallStandardizePrice ==
    /\ mode = "price"
    /\ pc = "normalized"
    /\ transform_Price_Numeric' = standardize_price(price)
    /\ pc' = "standardized"
    /\ UNCHANGED <<mode, fault, mainVars, userVars, previous_result, Tier_Level,
                   etl_Price_Numeric, Feature_Count, Features_clean,
                   priceVars, scrapeVars>>

NextChain == NextPrice \/ CallNormalizePrice \/ CallStandardizePrice

SpecChain == InitPrice /\ [][NextChain]_vars

\* ------------------------------------------------------------------------
\* Specification SpecLists: the generic scraper called, as main calls it,
\* with the labels get_tier_names returns, on pages that hold one card per
\* label
\* ------------------------------------------------------------------------

\* one card per label, each with a price line and five list items
LabelCards(names) ==
    [k \in 1..Len(names) |-> MidCard(names[k], "$12.50 per month", GoodItems)]

\* one card per label with a long line of filler and no list item, so that
\* a container holding all of them stays below the upper end of the band
BareCards(names) ==
    [k \in 1..Len(names) |->
        MidCard(names[k], Repeat("x", MaxTextLen \div 5 - 100), <<>>)]

ListPages(names) ==
    {CardsPage(MaxDepth, LabelCards(names)),
     WrapperPage(MaxDepth, LabelCards(names)),
     WrapperPage(MaxDepth, BareCards(names)),
     CardsPage(ShallowDepth, LabelCards(names)),
     CardsPage(MaxDepth, <<MidCard(names[1], "$5", <<>>)>>)}

InitLists ==
    /\ mode = "generic"
    /\ tier_names \in {get_tier_names(c) : c \in Companies}
    /\ page \in ListPages(tier_names)
    /\ fault = NoFault
    /\ previous_result = NoResult
    /\ EtlIdle
    /\ MainIdle
    /\ UsersIdle
    /\ ti = 1
    /\ tier = tier_names[1]
    /\ pc = "heading"
    /\ container_text = ""
    /\ price = "none"
    /\ tier_heading = 0
    /\ current = 0
    /\ level = 0
    /\ best_container = 0
    /\ best_score = 0
    /\ scored = <<>>
    /\ containers_by_size = <<>>
    /\ features = <<>>
    /\ li_i = 0
    /\ pricing_data = <<>>

SpecLists == InitLists /\ [][GenericNext]_vars

\* ------------------------------------------------------------------------
\* Specification SpecRound: the Features field written by the scraper and
\* read back by the two pipelines (etl_pipeline.py:170-173 and
\* transform_pricing.py:40-61, 88)
\* ------------------------------------------------------------------------

\* list items whose text holds the separator of the Features field
PipeItemLists ==
    {<<"Docs | Wikis", "Tasks", "Guests", "alpha", "beta">>,
     <<"Boards|Lists", "Tasks", "Guests", "alpha", "beta">>}

RoundPages ==
    Pages \cup {CardsPage(MaxDepth, ThreeCards("Pro", "$12.50 per month", items)) :
                   items \in PipeItemLists}

\* the strings pd.read_csv reads as NaN (etl_pipeline.py:42,
\* transform_pricing.py:77)
na_values ==
    {"", "#N/A", "#N/A N/A", "#NA", "-1.#IND", "-1.#QNAN", "-NaN", "-nan",
     "1.#IND", "1.#QNAN", "<NA>", "N/A", "NA", "NULL", "NaN", "None", "n/a",
     "nan", "null"}

RECURSIVE SplitPipe(_)
\* str.split('|')
SplitPipe(s) ==
    IF ~Contains(s, "|") THEN <<s>>
    ELSE LET i == CHOOSE j \in 1..Len(s) :
                     /\ Char(s, j) = "|"
                     /\ \A k \in 1..(j - 1) : Char(s, k) # "|"
         IN  <<SubSeq(s, 1, i - 1)>> \o SplitPipe(SubSeq(s, i + 1, Len(s)))

\* etl_pipeline.py:171-173 on a field as read from the CSV
feature_count(x) ==
    IF x \in na_values THEN 0 ELSE Len(SplitPipe(x))

RECURSIVE KeepFirst(_, _)
\* transform_pricing.py:54-59: the stripped parts that are not empty and
\* were not seen before, in order
KeepFirst(parts, seen) ==
    IF parts = <<>> THEN <<>>
    ELSE LET feat == Strip(Head(parts))
         IN  IF feat # "" /\ feat \notin seen
             THEN <<feat>> \o KeepFirst(Tail(parts), seen \cup {feat})
             ELSE KeepFirst(Tail(parts), seen)

\* transform_pricing.py:40-61: the list cleaned and the string returned
clean_features(features_str) ==
    IF features_str \in na_values
    THEN [cleaned |-> <<>>, Features |-> ""]
    ELSE LET cleaned == KeepFirst(SplitPipe(features_str), {})
         IN  [cleaned |-> cleaned, Features |-> JoinWith(cleaned, " | ")]

InitRound ==
    /\ mode \in {"generic", "notion"}
    /\ page \in RoundPages
    /\ tier_names \in (IF mode = "generic" THEN GenericTierLists
                                            ELSE {NotionTierNames})
    /\ fault = NoFault
    /\ previous_result = NoResult
    /\ EtlIdle
    /\ MainIdle
    /\ UsersIdle
    /\ ti = 1
    /\ tier = tier_names[1]
    /\ pc = "heading"
    /\ container_text = ""
    /\ price = "none"
    /\ tier_heading = 0
    /\ current = 0
    /\ level = 0
    /\ best_container = 0
    /\ best_score = 0
    /\ scored = <<>>
    /\ containers_by_size = <<>>
    /\ features = <<>>
    /\ li_i = 0
    /\ pricing_data = <<>>

\* etl_pipeline.py:171 on the records main saved (scraper.py:283-287)
CallFeatureCount ==
    /\ mode \in {"generic", "notion"}
    /\ pc = "done"
    /\ pricing_data # <<>>
    /\ Feature_Count' = [k \in 1..Len(pricing_data) |->
                            feature_count(pricing_data[k].Features)]
    /\ pc' = "counted"
    /\ UNCHANGED <<mode, fault, mainVars, userVars, previous_result, Tier_Level,
                   etl_Price_Numeric, transform_Price_Numeric, Features_clean,
                   priceVars, scrapeVars>>

\* transform_pricing.py:88 on the same records
CallCleanFeatures ==
    /\ mode \in {"generic", "notion"}
    /\ pc = "counted"
    /\ Features_clean' = [k \in 1..Len(pricing_data) |->
                             clean_features(pricing_data[k].Features)]
    /\ pc' = "cleaned"
    /\ UNCHANGED <<mode, fault, mainVars, userVars, previous_result, Tier_Level,
                   etl_Price_Numeric, transform_Price_Numeric, Feature_Count,
                   priceVars, scrapeVars>>

NextRound == Next \/ CallFeatureCount \/ CallCleanFeatures

SpecRound == InitRound /\ [][NextRound]_vars

\* ------------------------------------------------------------------------
\* Specification SpecUsers: generate_users of generate_synthetic_data.py
\* (lines 21-135) on the pricing table the ETL pipeline writes
\* ------------------------------------------------------------------------

\* n_users of line 21, bounded
MaxUsers == 2

\* lines 34-44: the keys of company_weights
company_weights ==
    {"Notion", "Asana", "Monday", "Trello", "Miro", "Figma", "Airtable",
     "Clickup", "Coda"}

\* lines 61-66: the keys of tier_probs
tier_probs == 1..4

\* str.capitalize()
capitalize(s) ==
    IF s = "" THEN ""
    ELSE UpperStr(Char(s, 1)) \o LowerStr(SubSeq(s, 2, Len(s)))

\* the companies whose CSV main wrote, in the order the ETL reads them
ScrapedOrders ==
    {<<"Notion", "ClickUp", "Asana", "Airtable", "Coda", "Trello", "Figma",
       "Monday", "Linear", "Miro">>,
     <<"Notion", "ClickUp", "Asana", "Airtable", "Trello", "Figma",
       "Monday", "Linear", "Miro">>}

\* the rows of one company in data/clean/pricing_standardized.csv: Company
\* from the file name (etl_pipeline.py:37), one row per label of
\* get_tier_names, Tier_Level from assign_tier_level (etl_pipeline.py:161)
RowsOf(company) ==
    [k \in 1..Len(get_tier_names(company)) |->
        [Company |-> capitalize(LowerStr(company)),
         Tier |-> get_tier_names(company)[k],
         Tier_Level |-> assign_tier_level(get_tier_names(company)[k])]]

RECURSIVE RowsOfAll(_)
RowsOfAll(companies) ==
    IF companies = <<>> THEN <<>>
    ELSE RowsOf(Head(companies)) \o RowsOfAll(Tail(companies))

\* line 58: pricing_df[pricing_df['Company'] == company]
company_tiers(company) ==
    SelectSeq(pricing_df, LAMBDA r : r.Company = company)

\* line 75: company_tiers[company_tiers['Tier_Level'] == tier_level]
available_tiers(company, tier_level) ==
    SelectSeq(company_tiers(company), LAMBDA r : r.Tier_Level = tier_level)

\* lines 77-82: the tier name of the user
user_tier(company, tier_level) ==
    IF Len(available_tiers(company, tier_level)) > 0
    THEN available_tiers(company, tier_level)[1].Tier
    ELSE company_tiers(company)[1].Tier

InitUsers ==
    /\ mode = "users"
    /\ pc = "loop"
    /\ pricing_df \in {RowsOfAll(order) : order \in ScrapedOrders}
    /\ users = <<>>
    /\ fault = NoFault
    /\ previous_result = NoResult
    /\ EtlIdle
    /\ MainIdle
    /\ LocalsIdle
    /\ container_text = ""
    /\ tier = ""
    /\ price = "none"

\* lines 50-129: one pass of the loop; company and tier_level are drawn by
\* random.choices, the other fields of the record do not depend on the table
GenerateUser ==
    /\ mode = "users"
    /\ pc = "loop"
    /\ Len(users) < MaxUsers
    /\ \E company \in company_weights, tier_level \in tier_probs :
          /\ \/ Len(available_tiers(company, tier_level)) > 0
             \/ Len(company_tiers(company)) > 0
          /\ users' = Append(users,
                 [user_id |-> Len(users) + 1,
                  company |-> company,
                  tier |-> user_tier(company, tier_level),
                  tier_level |-> tier_level])
    /\ UNCHANGED <<mode, fault, mainVars, pricing_df, previous_result,
                   etlVars, pc, priceVars, scrapeVars>>

\* line 82: company_tiers.iloc[0] on a company without rows raises
\* IndexError, which nothing in generate_users catches
GenerateUserRaises ==
    /\ mode = "users"
    /\ pc = "loop"
    /\ Len(users) < MaxUsers
    /\ \E company \in company_weights : Len(company_tiers(company)) = 0
    /\ pc' = "raised"
    /\ UNCHANGED <<mode, fault, mainVars, userVars, previous_result,
                   etlVars, priceVars, scrapeVars>>

\* line 135: the loop is over, users_df is built
UsersDone ==
    /\ mode = "users"
    /\ pc = "loop"
    /\ Len(users) = MaxUsers
    /\ pc' = "done"
    /\ UNCHANGED <<mode, fault, mainVars, userVars, previous_result,
                   etlVars, priceVars, scrapeVars>>

NextUsers == GenerateUser \/ GenerateUserRaises \/ UsersDone

SpecUsers == InitUsers /\ [][NextUsers]_vars

\* ------------------------------------------------------------------------
\* main of the generic scraper (lines 236-347): one summary entry per
\* company row.  scrape_pricing is taken by what it does for the row: it
\* raises, or it returns a list of records.  The status strings are written
\* without their leading symbol.
\* ------------------------------------------------------------------------

MaxCompanies == 2

MaxReturned == 2

\* company names of companies.csv; the last one holds a path separator
CompanyNames == {"Notion", "Acme", "AC/DC"}

\* scrape_pricing(driver, url, company, tier_names) raises or returns
\* `records` records
ScrapeOutcomes ==
    {[raises |-> TRUE, records |-> 0]}
        \cup {[raises |-> FALSE, records |-> n] : n \in 0..MaxReturned}

\* line 286: output_dir / f"{company.lower()}_pricing.csv"
output_path(company) == LowerStr(company) \o "_pricing.csv"

\* line 287: df.to_csv(output_path) raises when the name leads into a
\* directory that does not exist
ToCsvRaises(company) == Contains(output_path(company), "/")

SeqsUpTo(S, n) == UNION {[1..k -> S] : k \in 0..n}

InitMain ==
    /\ mode = "main"
    /\ pc = "loop"
    /\ companies_df \in SeqsUpTo(CompanyNames, MaxCompanies)
    /\ scrape_outcome \in [1..Len(companies_df) -> ScrapeOutcomes]
    /\ row_i = 1
    /\ results = <<>>
    /\ csv_files = <<>>
    /\ driver_quit = FALSE
    /\ fault = NoFault
    /\ previous_result = NoResult
    /\ EtlIdle
    /\ UsersIdle
    /\ LocalsIdle
    /\ container_text = ""
    /\ tier = ""
    /\ price = "none"

\* lines 283-302: records came back and the CSV is written
M_Success ==
    /\ mode = "main"
    /\ pc = "loop"
    /\ row_i <= Len(companies_df)
    /\ ~scrape_outcome[row_i].raises
    /\ scrape_outcome[row_i].records > 0
    /\ ~ToCsvRaises(companies_df[row_i])
    /\ csv_files' = Append(csv_files, output_path(companies_df[row_i]))
    /\ results' = Append(results,
                         [Company |-> companies_df[row_i],
                          Status |-> "Success",
                          Tiers |-> scrape_outcome[row_i].records,
                          File |-> output_path(companies_df[row_i])])
    /\ row_i' = row_i + 1
    /\ UNCHANGED <<mode, fault, userVars, previous_result, etlVars, pc,
                   priceVars, scrapeVars, companies_df, scrape_outcome,
                   driver_quit>>

\* lines 303-310: an empty list came back
M_NoData ==
    /\ mode = "main"
    /\ pc = "loop"
    /\ row_i <= Len(companies_df)
    /\ ~scrape_outcome[row_i].raises
    /\ scrape_outcome[row_i].records = 0
    /\ results' = Append(results,
                         [Company |-> companies_df[row_i],
                          Status |-> "No data", Tiers |-> 0, File |-> "N/A"])
    /\ row_i' = row_i + 1
    /\ UNCHANGED <<mode, fault, userVars, previous_result, etlVars, pc,
                   priceVars, scrapeVars, companies_df, scrape_outcome,
                   csv_files, driver_quit>>

\* faulty variant of M_Error: the exception leaves the loop
M_Error_stops ==
    /\ mode = "main"
    /\ pc = "loop"
    /\ row_i <= Len(companies_df)
    /\ \/ scrape_outcome[row_i].raises
       \/ scrape_outcome[row_i].records > 0 /\ ToCsvRaises(companies_df[row_i])
    /\ row_i' = Len(companies_df) + 1
    /\ UNCHANGED <<mode, fault, userVars, previous_result, etlVars, pc,
                   priceVars, scrapeVars, companies_df, scrape_outcome,
                   results, csv_files, driver_quit>>

\* lines 315-326: scrape_pricing (line 281) or the CSV write (line 287)
\* raised inside the try of line 275
M_Error ==
    /\ mode = "main"
    /\ pc = "loop"
    /\ row_i <= Len(companies_df)
    /\ \/ scrape_outcome[row_i].raises
       \/ scrape_outcome[row_i].records > 0 /\ ToCsvRaises(companies_df[row_i])
    /\ results' = Append(results,
                         [Company |-> companies_df[row_i],
                          Status |-> "Error", Tiers |-> 0, File |-> "N/A"])
    /\ row_i' = row_i + 1
    /\ UNCHANGED <<mode, fault, userVars, previous_result, etlVars, pc,
                   priceVars, scrapeVars, companies_df, scrape_outcome,
                   csv_files, driver_quit>>

\* lines 328-330: the loop is over, finally: driver.quit()
M_Finally ==
    /\ mode = "main"
    /\ pc = "loop"
    /\ row_i > Len(companies_df)
    /\ driver_quit' = TRUE
    /\ pc' = "summary"
    /\ UNCHANGED <<mode, fault, userVars, previous_result, etlVars,
                   priceVars, scrapeVars, companies_df, scrape_outcome,
                   row_i, results, csv_files>>

NextMain == M_Success \/ M_NoData \/ M_Error \/ M_Finally

SpecMain == InitMain /\ [][NextMain]_vars

\* ------------------------------------------------------------------------
\* Specification SpecAll: the scraper runs and the price rules together
\* ------------------------------------------------------------------------

InitAll == Init \/ InitPrice

NextAll == Next \/ NextPrice

SpecAll == InitAll /\ [][NextAll]_vars

\* ------------------------------------------------------------------------
\* Vocabulary of the properties (stated independently of the code's helpers)
\* ------------------------------------------------------------------------

SameLetter(c, d) ==
    \/ c = d
    \/ \E k \in 1..26 : {c, d} = {Char(UpperAlpha, k), Char(LowerAlpha, k)}

\* phrase occurs in s, in any letter case
OccursAnyCase(s, phrase) ==
    \E i \in 1..(Len(s) - Len(phrase) + 1) :
        \A k \in 1..Len(phrase) :
            SameLetter(Char(s, i + k - 1), Char(phrase, k))

\* s is the word w, in any letter case
IsWordAnyCase(s, w) == Len(s) = Len(w) /\ OccursAnyCase(s, w)

ContactPhrases ==
    {"contact sales", "contact us", "get in touch", "talk to sales",
     "custom pricing"}

MentionsContact(s) == \E p \in ContactPhrases : OccursAnyCase(s, p)

AllDigits(s, a, b) == a <= b /\ \A k \in a..b : Char(s, k) \in Digits

\* s[i..e] is '$' followed by digits, optionally '.' and two digits
DollarAmountAt(s, i, e) ==
    /\ 1 <= i /\ e <= Len(s)
    /\ Char(s, i) = "$"
    /\ \/ AllDigits(s, i + 1, e)
       \/ /\ e - 3 >= i + 1
          /\ AllDigits(s, i + 1, e - 3)
          /\ Char(s, e - 2) = "."
          /\ AllDigits(s, e - 1, e)

HasDollarAmount(s) == \E i, e \in 1..Len(s) : DollarAmountAt(s, i, e)

\* s[i..e] is an integer or a number with a two-digit decimal part
BareNumberAt(s, i, e) ==
    \/ AllDigits(s, i, e)
    \/ /\ e - 3 >= i
       /\ AllDigits(s, i, e - 3)
       /\ Char(s, e - 2) = "."
       /\ AllDigits(s, e - 1, e)

\* ... directly followed, after optional spaces, by a billing-period word
BilledNumberAt(s, i, e) ==
    /\ 1 <= i /\ e <= Len(s)
    /\ BareNumberAt(s, i, e)
    /\ \E q \in (e + 1)..Len(s) :
          /\ \A k \in (e + 1)..(q - 1) : Char(s, k) \in Whitespace
          /\ \E w \in {"per", "/", "month", "mo"} :
                /\ q + Len(w) - 1 <= Len(s)
                /\ \A k \in 1..Len(w) :
                      SameLetter(Char(s, q + k - 1), Char(w, k))

Returned == mode = "price" /\ pc = "returned"

\* ------------------------------------------------------------------------
\* Claims about extract_price (specification SpecPrice)
\* ------------------------------------------------------------------------

\* C1: every text that contains a contact-sales phrase, in any letter case,
\* yields "Contact sales", for every tier label and whatever else the text
\* holds (a dollar amount, 'free forever').
C1_ContactSalesFirst ==
    (Returned /\ MentionsContact(container_text)) => price = "Contact sales"

C1_Witness ==
    /\ Returned
    /\ tier = "Free"
    /\ MentionsContact(container_text)
    /\ HasDollarAmount(container_text)
    /\ price = "Contact sales"

\* C2 as stated: a tier label equal to "free" in any letter case, or a text
\* that trims to exactly "Free", always yields "Free".
C2_FreeWhateverText ==
    (/\ Returned
     /\ \/ IsWordAnyCase(tier, "free")
        \/ Strip(container_text) = "Free")
        => price = "Free"

\* C2 amended: the same calls yield "Free" provided the text holds no
\* contact-sales phrase (which takes priority).
C2_FreeUnlessContact ==
    (/\ Returned
     /\ \/ IsWordAnyCase(tier, "free")
        \/ Strip(container_text) = "Free"
     /\ ~MentionsContact(container_text))
        => price = "Free"

C2_Witness ==
    /\ Returned
    /\ tier = "FREE"
    /\ HasDollarAmount(container_text)
    /\ ~MentionsContact(container_text)
    /\ price = "Free"

\* C3: with no contact phrase, no 'free forever', a text that is not the
\* single word 'free' and a tier label other than free, a text that holds a
\* dollar amount yields the leftmost amount exactly as written: the result
\* is the longest amount that starts at the first '$' followed by a digit.
C3_LeftmostDollarAmount ==
    (/\ Returned
     /\ ~MentionsContact(container_text)
     /\ ~OccursAnyCase(container_text, "free forever")
     /\ ~IsWordAnyCase(Strip(container_text), "free")
     /\ ~IsWordAnyCase(tier, "free")
     /\ HasDollarAmount(container_text))
        => \E i, e \in 1..Len(container_text) :
              /\ DollarAmountAt(container_text, i, e)
              /\ price = SubSeq(container_text, i, e)
              /\ \A a, b \in 1..Len(container_text) :
                    DollarAmountAt(container_text, a, b)
                        => (i < a \/ (i = a /\ b <= e))

C3_Witness ==
    /\ Returned
    /\ tier = "Pro"
    /\ container_text = "Starts at $17.50/month for unlimited members"
    /\ price = "$17.50"

\* C4 as stated: when no contact, free or dollar rule applies and the text
\* holds a bare number (integer or with two decimals) followed by a
\* billing-period word, the result is "$" and that number as written.
C4_BareNumberAsWritten ==
    (/\ Returned
     /\ ~MentionsContact(container_text)
     /\ ~OccursAnyCase(container_text, "free forever")
     /\ ~IsWordAnyCase(Strip(container_text), "free")
     /\ ~IsWordAnyCase(tier, "free")
     /\ ~HasDollarAmount(container_text)
     /\ \E i, e \in 1..Len(container_text) :
            BilledNumberAt(container_text, i, e))
        => \E i, e \in 1..Len(container_text) :
              /\ BilledNumberAt(container_text, i, e)
              /\ price = "$" \o SubSeq(container_text, i, e)

\* ------------------------------------------------------------------------
\* Claims about the records of the scrapers (specifications Spec, SpecAll)
\* ------------------------------------------------------------------------

\* p is '$' followed by digits, optionally '.' and two digits
IsDollarString(p) == DollarAmountAt(p, 1, Len(p))

IsPriceClass(p) ==
    IsDollarString(p) \/ p \in {"Free", "Contact sales", "N/A"}

Records == {pricing_data[k] : k \in 1..Len(pricing_data)}

\* C5: the Price of every record of either scraper, and every value the
\* price rules of either scraper return, is a dollar amount starting with
\* '$', "Free", "Contact sales" or "N/A"; it is never empty.
C5_PriceClass ==
    /\ \A r \in Records : IsPriceClass(r.Price)
    /\ pc \in {"returned", "notion_returned", "features"}
           => IsPriceClass(price)

C5_Witness ==
    /\ mode = "generic"
    /\ pc = "done"
    /\ \E r \in Records : r.Price = "N/A"
    /\ \E r \in Records : r.Price = "Free"
    /\ \E r \in Records : r.Price = "Contact sales"

\* the tier headings all sit directly under one element w whose text names
\* every tier label: no narrower ancestor isolates a single tier
SharedWrapper(pg, names, w) ==
    /\ names # <<>>
    /\ \A k \in 1..Len(names) :
          /\ FindHeading(pg, names[k]) # 0
          /\ pg[FindHeading(pg, names[k])].parent = w
          /\ Contains(ElemText(pg, w), names[k])

\* the parent of the first tier's heading (0 when there is none)
WrapperOf(pg, names) ==
    IF names = <<>> THEN 0
    ELSE IF FindHeading(pg, names[1]) = 0 THEN 0
    ELSE pg[FindHeading(pg, names[1])].parent

Adversarial ==
    /\ WrapperOf(page, tier_names) # 0
    /\ SharedWrapper(page, tier_names, WrapperOf(page, tier_names))

\* C6 as stated: on the adversarial page the generic scraper chooses no
\* container for any tier label and emits no record.
C6_NoContainerOnWrapper ==
    (mode = "generic" /\ pc \in {"features", "done"} /\ Adversarial)
        => (pricing_data = <<>> /\ pc # "features")

\* C6 amended: on the adversarial page, once the ascent of a tier has run
\* all its levels past a wrapper whose text has 50 to 5000 characters, a
\* container is chosen (the score of the wrapper, lowered by 40 per other
\* label, still beats the initial -999); the chosen container holds every
\* tier label, and the record of the tier is built from that merged text.
C6_WrapperChosen ==
    (/\ mode = "generic"
     /\ (pc = "ascend" /\ level = AscentLevels) \/ pc = "features"
     /\ Adversarial
     /\ Len(ElemText(page, WrapperOf(page, tier_names))) >= MinTextLen
     /\ Len(ElemText(page, WrapperOf(page, tier_names))) <= MaxTextLen)
        => /\ best_container # 0
           /\ \A k \in 1..Len(tier_names) :
                 Contains(ElemText(page, best_container), tier_names[k])
           /\ pc = "features"
                 => price = extract_price(
                        ElemText(page, WrapperOf(page, tier_names)), tier)

C6_Witness ==
    /\ mode = "generic"
    /\ pc = "done"
    /\ Adversarial
    /\ Len(pricing_data) = 3
    /\ \A r \in Records :
          /\ r.Price = "Contact sales"
          /\ InList("Upgrade to Pro anytime", r.features)
          /\ InList("Audit log export", r.features)

\* the synthetic trees of the end-to-end scenario: three sibling cards
\* Free, Pro, Enterprise with 5 list items each and one price signal
EndToEndPages ==
    {CardsPage(d, ThreeCards("Pro", "$12.50 per month", GoodItems)) :
        d \in HeadingDepths}

OwnItems(label) ==
    IF label = "Free" THEN FreeCard.items
    ELSE IF label = "Enterprise" THEN EnterpriseCard.items
    ELSE GoodItems

\* C7 as stated: on the end-to-end tree the generic scraper returns exactly
\* three records, in the order Free, Pro, Enterprise, with the prices "Free",
\* the dollar amount of the Pro card and "Contact sales", each with a
\* non-empty feature list taken from its own card only.
C7_EndToEnd ==
    (mode = "generic" /\ page \in EndToEndPages /\ pc = "done")
        => /\ Len(pricing_data) = 3
           /\ pricing_data[1].Tier = "Free" /\ pricing_data[1].Price = "Free"
           /\ pricing_data[2].Tier = "Pro"
           /\ pricing_data[2].Price = "$12.50"
           /\ pricing_data[3].Tier = "Enterprise"
           /\ pricing_data[3].Price = "Contact sales"
           /\ \A k \in 1..3 :
                 /\ pricing_data[k].features # <<>>
                 /\ \A i \in 1..Len(pricing_data[k].features) :
                       InList(pricing_data[k].features[i],
                              OwnItems(pricing_data[k].Tier))

NoTwoEqual(feats) ==
    \A i, j \in 1..Len(feats) : i # j => feats[i] # feats[j]

\* position of the first list item of the chosen container whose cleaned
\* text is f (0 when there is none)
FirstSeen(f) ==
    LET all == FindByTag(page, best_container, "li")
        at == {k \in 1..Len(all) :
                  Strip(ReplaceNewlines(Strip(ElemText(page, all[k])))) = f}
    IN  IF at = {} THEN 0 ELSE CHOOSE k \in at : \A j \in at : k <= j

\* C9 as stated: the feature list built by the generic scraper holds no two
\* equal strings, whatever the list-item texts are (line breaks included),
\* and keeps the order in which the list items first occur.
C9_NoDuplicatesInOrder ==
    (mode = "generic" /\ pc = "features")
        => /\ NoTwoEqual(features)
           /\ \A i, j \in 1..Len(features) :
                 i < j => (/\ FirstSeen(features[i]) > 0
                           /\ FirstSeen(features[i]) < FirstSeen(features[j]))

\* C10: a record of the generic scraper holds at most 30 features and a
\* record of the Notion scraper at most 20, however many list items the
\* chosen container has.
C10_FeatureCap ==
    \A r \in Records :
        /\ mode = "generic" => Len(r.features) <= 30
        /\ mode = "notion" => Len(r.features) <= 20

C10_Witness ==
    /\ mode = "generic"
    /\ pc = "features"
    /\ Len(FindByTag(page, best_container, "li")) > 30
    /\ li_i > Len(list_items)
    /\ Len(features) = 30

\* ------------------------------------------------------------------------
\* Claims about the score (specification SpecScore)
\* ------------------------------------------------------------------------

\* the two candidates differ at most in the signals named by Differ
SameBut(a, b, Differ) ==
    \A f \in {"has_price", "other_mentions", "li_count", "text_len"} \ Differ :
        a[f] = b[f]

\* C11 as stated: a candidate that mentions one other tier label never
\* scores higher than a candidate of the same text length that mentions
\* none, whatever their price-indicator and list-item signals are.
C11_PenaltyOutweighsAll ==
    \A i, j \in 1..Len(scored) :
        (/\ scored[i].text_len = scored[j].text_len
         /\ scored[i].other_mentions = 1
         /\ scored[j].other_mentions = 0)
            => scored[i].score <= scored[j].score

\* C11 amended: the penalty of 40 outweighs the list-item bonus of 30 but
\* not the price bonus of 50: a candidate that mentions one other tier label
\* scores lower than a candidate of the same text length that mentions none
\* whenever the latter has a price indicator or the former has none.
C11_PenaltyOutweighsListBonus ==
    \A i, j \in 1..Len(scored) :
        (/\ scored[i].text_len = scored[j].text_len
         /\ scored[i].other_mentions = 1
         /\ scored[j].other_mentions = 0
         /\ scored[i].has_price => scored[j].has_price)
            => scored[i].score < scored[j].score

C11_Witness ==
    /\ mode = "score"
    /\ pc = "compared"
    /\ scored[1].other_mentions = 1 /\ scored[2].other_mentions = 0
    /\ scored[1].text_len = scored[2].text_len
    /\ scored[1].has_price /\ scored[2].has_price
    /\ scored[1].li_count = MinListItems
    /\ scored[2].li_count = MaxListItems + 1
    /\ scored[1].score = scored[2].score - 10 * SizeDivisor

\* C12: with price indicator, list-item count and text length held fixed,
\* the score falls by exactly 40 (in units of 1/200: 40 * 200) for every
\* further other tier label found in the text.
C12_StrictlyDecreasing ==
    \A i, j \in 1..Len(scored) :
        SameBut(scored[i], scored[j], {"other_mentions"})
            => scored[i].score - scored[j].score
                  = OtherTierPenalty * SizeDivisor
                      * (scored[j].other_mentions - scored[i].other_mentions)

C12_Witness ==
    /\ mode = "score"
    /\ pc = "compared"
    /\ SameBut(scored[1], scored[2], {"other_mentions"})
    /\ scored[1].other_mentions = 0
    /\ scored[2].other_mentions = 1
    /\ scored[2].score < scored[1].score

\* ------------------------------------------------------------------------
\* Claims about the tier loop (specifications Spec, SpecFault)
\* ------------------------------------------------------------------------

\* position of a label in the requested tier labels (0 when it is not one)
TierIndex(label) ==
    IF \E k \in 1..Len(tier_names) : tier_names[k] = label
    THEN CHOOSE k \in 1..Len(tier_names) : tier_names[k] = label
    ELSE 0

\* the records name requested labels, in the order of the request, each at
\* most once, and only labels the loop has already reached
InRequestOrder ==
    /\ \A i \in 1..Len(pricing_data) :
          /\ TierIndex(pricing_data[i].Tier) > 0
          /\ TierIndex(pricing_data[i].Tier) <= ti
    /\ \A i, j \in 1..Len(pricing_data) :
          i < j => TierIndex(pricing_data[i].Tier)
                      < TierIndex(pricing_data[j].Tier)

\* C13: the records of scrape_pricing are a subsequence of the requested
\* tier labels (one record at most per label, in request order), and the
\* step that leaves a tier without heading or without container adds no
\* record.
C13_Subsequence ==
    /\ [](mode = "generic" => InRequestOrder)
    /\ [][(/\ mode = "generic"
           /\ ti' # ti
           /\ tier_heading' = 0 \/ best_container = 0)
              => pricing_data' = pricing_data]_vars

C13_Witness ==
    /\ mode = "generic"
    /\ pc = "done"
    /\ FindHeading(page, "Pro") = 0
    /\ Len(pricing_data) = 2
    /\ pricing_data[1].Tier = "Free"
    /\ pricing_data[2].Tier = "Enterprise"

\* what the card of a label yields on the pages of FaultPages when nothing
\* fails
ExpectedRecord(label) ==
    Record(label,
           IF label = "Free" THEN "Free"
           ELSE IF label = "Enterprise" THEN "Contact sales"
           ELSE "$12.50",
           OwnItems(label))

\* the handling of tier k was cut short by the handler of lines 230-232
Aborted(k) ==
    fault.tier = k /\ fault.op \in {"heading", "parent", "price"}

\* C14: in scrape_pricing a step that gives up a tier (no heading, no
\* container, or a raised exception) leaves the records emitted so far
\* unchanged and moves on to the next label; records are only ever appended;
\* the loop ends after the last label; and when one driver call raises, the
\* result holds the records of all other tiers exactly as without the
\* failure, and no record of a tier whose handling was cut short.
C14_FailureStaysInTier ==
    /\ [][mode = "generic" =>
            /\ (pc \in {"heading", "ascend"} /\ ti' # ti)
                   => pricing_data' = pricing_data
            /\ ti' # ti =>
                   /\ ti' = ti + 1
                   /\ (pc' = "done") = (ti = Len(tier_names))
            /\ \/ pricing_data' = pricing_data
               \/ /\ Len(pricing_data') = Len(pricing_data) + 1
                  /\ SubSeq(pricing_data', 1, Len(pricing_data))
                        = pricing_data]_vars
    /\ []((mode = "generic" /\ pc = "done") =>
            /\ ti = Len(tier_names) + 1
            /\ page \in FaultPages =>
                  \A k \in 1..Len(tier_names) :
                      /\ (k # fault.tier
                            /\ FindHeading(page, tier_names[k]) # 0)
                           => ExpectedRecord(tier_names[k]) \in Records
                      /\ Aborted(k) =>
                             \A r \in Records : r.Tier # tier_names[k])

C14_Witness ==
    /\ mode = "generic"
    /\ pc = "done"
    /\ fault = [tier |-> 2, op |-> "parent", at |-> 1]
    /\ pricing_data
          = <<ExpectedRecord("Free"), ExpectedRecord("Enterprise")>>
    /\ FindHeading(page, "Pro") # 0

\* a candidate of the running ascent has been scored (generic scraper) or
\* collected (Notion scraper)
HasCandidate ==
    \/ mode = "generic" /\ best_container # 0
    \/ mode = "notion" /\ containers_by_size # <<>>

\* C15 as stated: a traversal failure at one level of the ascent (reading
\* the text, counting the list items, stepping to the parent) costs that
\* level only: an ascent that has a scored candidate never gives up its
\* tier, so the best candidate is chosen and the tier yields its record.
C15_LevelFailureIsLocal ==
    [][(mode \in {"generic", "notion"} /\ pc = "ascend" /\ HasCandidate)
          => /\ ti' = ti
             /\ pc' \in {"ascend", "features"}]_vars

\* C16: a second call of scrape_pricing on the same unchanged tree with the
\* same tier labels returns the record sequence the first call returned.
C16_SameResultTwice ==
    (mode = "generic" /\ pc = "done" /\ previous_result # NoResult)
        => pricing_data = previous_result

C16_Witness ==
    /\ mode = "generic"
    /\ pc = "done"
    /\ previous_result # NoResult
    /\ Len(previous_result) = 3
    /\ pricing_data = previous_result
    /\ \E r \in Records : r.Price = "$12.50"

\* ------------------------------------------------------------------------
\* Claims about the ETL functions (specifications SpecLevel, SpecChain)
\* ------------------------------------------------------------------------

\* the level of the keyword list that names the label (0 when none does)
ListedLevel(label) ==
    IF LowerStr(label) \in Level1Words THEN 1
    ELSE IF LowerStr(label) \in Level2Words THEN 2
    ELSE IF LowerStr(label) \in Level3Words THEN 3
    ELSE IF LowerStr(label) \in Level4Words THEN 4
    ELSE 0

\* C17 as stated: every listed keyword, used as a tier label in any letter
\* case, gets the level of the list that names it; so does every label
\* get_tier_names can return.
C17_KeywordLevel ==
    (mode = "level" /\ pc = "returned" /\ ListedLevel(tier) # 0)
        => Tier_Level = ListedLevel(tier)

RECURSIVE NatOf(_)
\* the number a string of decimal digits denotes
NatOf(d) ==
    IF Len(d) = 0 THEN 0
    ELSE LET last == SubSeq(d, Len(d), Len(d))
             units == CHOOSE u \in 0..9 : SubSeq("0123456789", u + 1, u + 1)
                                              = last
         IN  10 * NatOf(SubSeq(d, 1, Len(d) - 1)) + units

\* the amount of "$n" or "$n.dd", in hundredths
DollarCents(p) ==
    IF \E i \in 1..Len(p) : SubSeq(p, i, i) = "."
    THEN 100 * NatOf(SubSeq(p, 2, Len(p) - 3))
            + NatOf(SubSeq(p, Len(p) - 1, Len(p)))
    ELSE 100 * NatOf(SubSeq(p, 2, Len(p)))

\* C18: for every string extract_price returns, normalize_price and
\* standardize_price both give 0.0 for "Free", no value for "Contact sales"
\* and "N/A", and the amount n or n.dd for a dollar string "$n" or "$n.dd".
C18_NormalizersAgree ==
    (mode = "price" /\ pc = "standardized") =>
        /\ etl_Price_Numeric = transform_Price_Numeric
        /\ price = "Free" => etl_Price_Numeric = Value(0)
        /\ price \in {"Contact sales", "N/A"} => etl_Price_Numeric = NoValue
        /\ IsDollarString(price)
              => etl_Price_Numeric = Value(DollarCents(price))
        /\ IsPriceClass(price)

C18_Witness ==
    /\ mode = "price"
    /\ pc = "standardized"
    /\ price = "$17.50"
    /\ etl_Price_Numeric = Value(1750)
    /\ transform_Price_Numeric = Value(1750)

\* ------------------------------------------------------------------------
\* C19, C20: the heading search
\* ------------------------------------------------------------------------

\* the smallest node number of a set of nodes, 0 for the empty set; node
\* numbers follow document order
FirstInDocument(S) ==
    IF S = {} THEN 0 ELSE CHOOSE n \in S : \A m \in S : n <= m

\* the nodes whose own text contains the label and is shorter, trimmed, than
\* the threshold
ShortMatches(pg, t) ==
    {n \in 1..Len(pg) :
        /\ pg[n].own # ""
        /\ Contains(pg[n].own, t)
        /\ Len(Strip(pg[n].own)) < HeadingMaxLen}

\* the nodes whose own text contains the label, whose rendered text is
\* shorter, trimmed, than the threshold, and whose tag is a heading, a span
\* or a div
ShortTaggedMatches(pg, t) ==
    {n \in 1..Len(pg) :
        /\ pg[n].own # ""
        /\ Contains(pg[n].own, t)
        /\ Len(Strip(ElemText(pg, n))) < HeadingMaxLen
        /\ pg[n].tag \in {"h1", "h2", "h3", "h4", "h5", "h6", "span", "div"}}

\* the heading step of the generic scraper picks the first node of S, or
\* leaves the tier without a record when S is empty
HeadingStepPicks(S) ==
    (mode = "generic" /\ pc = "heading")
        => IF S = {}
           THEN pc' # "ascend" /\ pricing_data' = pricing_data
           ELSE pc' = "ascend" /\ tier_heading' = FirstInDocument(S)

\* C19 as stated: the heading search selects the first node in document
\* order among those whose own text contains the label and is shorter than
\* 50 characters, whatever its tag is, and skips the tier exactly when there
\* is no such node.
C19_FirstShortMatch ==
    [][HeadingStepPicks(ShortMatches(page, tier))]_vars

\* C19 amended: the heading search selects the first node in document order
\* among those whose own text contains the label, whose rendered text is
\* shorter than 50 characters and whose tag is h1..h6, span or div; it skips
\* the tier exactly when there is no such node.
C19_FirstShortTaggedMatch ==
    [][HeadingStepPicks(ShortTaggedMatches(page, tier))]_vars

\* a heading was chosen although a short list item naming the label comes
\* before it in the document
C19_Witness ==
    /\ mode = "generic"
    /\ pc = "ascend"
    /\ level = 0
    /\ tier = "Pro"
    /\ page[tier_heading].tag = "h3"
    /\ \E m \in ShortMatches(page, tier) :
           m < tier_heading /\ page[m].tag = "li"

\* the short heading nodes whose text is the label in another letter case
OtherCaseHeadings(pg, t) ==
    {n \in 1..Len(pg) :
        /\ pg[n].own # t
        /\ LowerStr(Strip(pg[n].own)) = LowerStr(t)
        /\ Len(Strip(ElemText(pg, n))) < NotionHeadingMaxLen
        /\ pg[n].tag \in {"h1", "h2", "h3", "h4", "h5", "h6"}}

\* C20: in both scrapers a short heading node whose text is the label in
\* another letter case is found and the tier goes on to the ascent.
C20_CaseInsensitiveMatch ==
    [][(/\ mode \in {"generic", "notion"}
        /\ pc = "heading"
        /\ OtherCaseHeadings(page, tier) # {})
           => (pc' = "ascend" /\ tier_heading' # 0)]_vars

\* ------------------------------------------------------------------------
\* C21: the container chosen by the generic scorer
\* ------------------------------------------------------------------------

\* the score of one scored ancestor as the rule gives it, times 200
RuleScore(c) ==
    200 * ((IF c.has_price THEN 50 ELSE 0) - 40 * c.other_mentions
              + (IF 3 <= c.li_count /\ c.li_count <= 30 THEN 30 ELSE 0))
        - c.text_len

\* the ancestors of the heading, from the closest one upwards
RECURSIVE AncestorsOf(_, _)
AncestorsOf(pg, n) ==
    IF pg[n].parent = 0 THEN <<>>
    ELSE <<pg[n].parent>> \o AncestorsOf(pg, pg[n].parent)

\* what the rule's inputs are for the ancestor of a scored entry
RuleInputsHold(c) ==
    LET text == ElemText(page, c.element)
    IN  /\ c.text_len = Len(text)
        /\ c.li_count = Cardinality({m \in 1..Len(page) :
                              page[m].tag = "li" /\ IsAncestor(page, c.element, m)})
        /\ c.has_price = (\/ Contains(LowerStr(text), "$")
                          \/ Contains(LowerStr(text), "free")
                          \/ Contains(LowerStr(text), "contact"))
        /\ c.other_mentions =
              Cardinality({k \in 1..Len(tier_names) :
                              /\ LowerStr(tier_names[k]) # LowerStr(tier)
                              /\ Contains(text, tier_names[k])})

\* the scored ancestors are met from the heading upwards
ScoredUpwards ==
    LET anc == AncestorsOf(page, tier_heading)
    IN  \A k \in 1..Len(scored) :
           \E a \in 1..Len(anc) :
              /\ anc[a] = scored[k].element
              /\ \A j \in 1..(k - 1) :
                     \E b \in 1..(a - 1) : anc[b] = scored[j].element

\* the first scored entry that no other scored entry beats
ShallowestBest ==
    CHOOSE k \in 1..Len(scored) :
        /\ \A j \in 1..Len(scored) : RuleScore(scored[j]) <= RuleScore(scored[k])
        /\ \A j \in 1..(k - 1) : RuleScore(scored[j]) < RuleScore(scored[k])

\* C21: during and after the ascent of a tier of the generic scraper, the
\* chosen container is the scored ancestor of the heading with the highest
\* score (+50 price indicator, -40 per other label, +30 for 3 to 30 list
\* items, minus text length / 200), and among equal highest scores the one
\* closest to the heading; nothing is chosen while nothing is scored.
C21_HighestScoreShallowest ==
    (mode = "generic" /\ pc \in {"ascend", "features"})
        => /\ \A k \in 1..Len(scored) :
                 RuleInputsHold(scored[k]) /\ scored[k].score = RuleScore(scored[k])
           /\ ScoredUpwards
           /\ IF scored = <<>> THEN best_container = 0
              ELSE /\ best_container = scored[ShallowestBest].element
                   /\ best_score = RuleScore(scored[ShallowestBest])

\* the ascent is over, two scored ancestors share the highest score and the
\* one closer to the heading is the chosen one
C21_Witness ==
    /\ mode = "generic"
    /\ pc = "ascend"
    /\ level = 10
    /\ \E j, k \in 1..Len(scored) :
          /\ j < k
          /\ best_container = scored[j].element
          /\ scored[k].element # scored[j].element
          /\ RuleScore(scored[k]) = RuleScore(scored[j])
          /\ \A i \in 1..Len(scored) : RuleScore(scored[i]) <= RuleScore(scored[j])

\* ------------------------------------------------------------------------
\* C22: the size band of the generic scorer
\* ------------------------------------------------------------------------

\* the ancestors the ascent of 10 levels visits, closest first
AscendedAncestors(pg, h) ==
    LET anc == AncestorsOf(pg, h)
    IN  SubSeq(anc, 1, IF Len(anc) < 10 THEN Len(anc) ELSE 10)

\* every ascended ancestor of the heading is shorter than 50 or longer than
\* 5000 characters
AllOutOfBand ==
    LET anc == AscendedAncestors(page, tier_heading)
    IN  \A a \in 1..Len(anc) :
           \/ Len(ElemText(page, anc[a])) < 50
           \/ Len(ElemText(page, anc[a])) > 5000

InGenericTier == mode = "generic" /\ pc \in {"ascend", "features"}

\* C22: a container chosen by the generic scorer has a text of 50 to 5000
\* characters; a tier whose ascended ancestors are all shorter than 50 or
\* longer than 5000 characters has no container and gets no record.
C22_ChosenWithinBand ==
    /\ [](InGenericTier =>
             /\ best_container # 0 =>
                    /\ 50 <= Len(ElemText(page, best_container))
                    /\ Len(ElemText(page, best_container)) <= 5000
             /\ AllOutOfBand => best_container = 0)
    /\ [][(InGenericTier /\ AllOutOfBand)
             => (pc' # "features" /\ pricing_data' = pricing_data)]_vars

\* a container of exactly 50 characters has been chosen
C22_Witness ==
    /\ mode = "generic"
    /\ pc = "features"
    /\ Len(ElemText(page, best_container)) = 50

\* ------------------------------------------------------------------------
\* C23: one record per chosen container
\* ------------------------------------------------------------------------

\* the ascent of the generic scraper is over and a container is chosen
ContainerChosen ==
    mode = "generic" /\ pc = "ascend" /\ level = 10 /\ best_container # 0

\* the record of the current tier with the features collected so far
RecordSoFar ==
    [Tier |-> tier, Price |-> price,
     Features |-> IF features = <<>> THEN "N/A" ELSE JoinWith(features, " | "),
     features |-> features]

\* the feature loop keeps the result as it is, and when it ends, however it
\* ends, exactly the record of the tier is appended
FeatureLoopEmitsOne ==
    (mode = "generic" /\ pc = "features")
        => IF pc' = "features" THEN pricing_data' = pricing_data
           ELSE pricing_data' = Append(pricing_data, RecordSoFar)

\* reading the text of the chosen container (line 192) raises in this tier
PriceReadRaises == fault.op = "price" /\ fault.tier = ti

ListItemCount(pg, n) ==
    Cardinality({m \in 1..Len(pg) : pg[m].tag = "li" /\ IsAncestor(pg, n, m)})

\* the ancestors the ascent of 8 levels visits that have a list item,
\* closest first
AncestorsWithItems ==
    LET anc == AncestorsOf(page, tier_heading)
        first8 == SubSeq(anc, 1, IF Len(anc) < 8 THEN Len(anc) ELSE 8)
        HasItems(n) == ListItemCount(page, n) > 0
    IN  SelectSeq(first8, HasItems)

\* the node has 5 to 35 list items and its text names no other tier
GoodContainer(n) ==
    /\ 5 <= ListItemCount(page, n)
    /\ ListItemCount(page, n) <= 35
    /\ \A k \in 1..Len(tier_names) :
          tier_names[k] = tier \/ ~Contains(ElemText(page, n), tier_names[k])

\* the choice the strategy describes among a non-empty sequence of
\* ancestors: the first good one, else one with the fewest list items
StrategyAllows(ws, n) ==
    LET good == {k \in 1..Len(ws) : GoodContainer(ws[k])}
    IN  IF good # {}
        THEN n = ws[CHOOSE k \in good : \A j \in good : k <= j]
        ELSE \E k \in 1..Len(ws) :
                /\ n = ws[k]
                /\ \A j \in 1..Len(ws) :
                      ListItemCount(page, ws[k]) <= ListItemCount(page, ws[j])

\* C24: when the ascent of a tier of the Notion scraper ends, the shallowest
\* ancestor with 5 to 35 list items and no other tier label is chosen; if
\* there is none, an ancestor with the smallest list-item count; the tier is
\* skipped without a record when no ancestor has a list item.
C24_FallbackStrategy ==
    [][(mode = "notion" /\ pc = "ascend" /\ pc' # "ascend")
          => IF AncestorsWithItems = <<>>
             THEN pc' # "features" /\ pricing_data' = pricing_data
             ELSE /\ pc' = "features"
                  /\ StrategyAllows(AncestorsWithItems, best_container')]_vars

\* ------------------------------------------------------------------------
\* C25: the summary of main
\* ------------------------------------------------------------------------

MainOver == mode = "main" /\ pc = "summary"

\* one entry per row, in the order of the rows, and the browser is closed
OneEntryPerRow ==
    /\ Len(results) = Len(companies_df)
    /\ \A k \in 1..Len(results) : results[k].Company = companies_df[k]
    /\ driver_quit

\* the CSV of row k has been written
CsvWritten(k) ==
    \E f \in 1..Len(csv_files) :
       csv_files[f] = LowerStr(companies_df[k]) \o "_pricing.csv"

\* C25 as stated: one entry per row in input order; Success and a CSV
\* exactly when scrape_pricing returned a record, 'No data' exactly when it
\* returned none, Error exactly when it raised; the browser is closed.
C25_SummaryPerCompany ==
    MainOver =>
        /\ OneEntryPerRow
        /\ \A k \in 1..Len(results) :
              LET o == scrape_outcome[k]
              IN  /\ (results[k].Status = "Success")
                        = (~o.raises /\ o.records >= 1)
                  /\ (results[k].Status = "Success") => CsvWritten(k)
                  /\ (results[k].Status = "No data")
                        = (~o.raises /\ o.records = 0)
                  /\ (results[k].Status = "Error") = o.raises

\* C25 amended: one entry per row in input order; Success exactly when
\* scrape_pricing returned a record and its CSV was written, 'No data'
\* exactly when it returned none, Error exactly when scrape_pricing raised
\* or it returned a record and the CSV could not be written; the browser is
\* closed.
C25_SummaryPerCompanySaved ==
    MainOver =>
        /\ OneEntryPerRow
        /\ \A k \in 1..Len(results) :
              LET o == scrape_outcome[k]
              IN  /\ (results[k].Status = "Success")
                        = (~o.raises /\ o.records >= 1 /\ CsvWritten(k))
                  /\ (results[k].Status = "Success")
                        => /\ results[k].Tiers = o.records
                           /\ results[k].File
                                 = LowerStr(companies_df[k]) \o "_pricing.csv"
                  /\ (results[k].Status = "No data")
                        = (~o.raises /\ o.records = 0)
                  /\ (results[k].Status = "Error")
                        = (o.raises \/ (o.records >= 1 /\ ~CsvWritten(k)))
                  /\ results[k].Status \in {"Success", "No data", "Error"}

\* the first company failed and the second one was still scraped and saved
C25_Witness ==
    /\ MainOver
    /\ Len(results) = 2
    /\ scrape_outcome[1].raises
    /\ results[1].Status = "Error"
    /\ results[2].Status = "Success"
    /\ driver_quit

\* ------------------------------------------------------------------------
\* C26: the ascent past the root of a shallow tree
\* ------------------------------------------------------------------------

\* the ancestors of the heading that qualify as a container: a text of 50 to
\* 5000 characters (generic scraper), at least one list item (Notion
\* scraper)
QualifyingAncestors ==
    LET anc == AncestorsOf(page, tier_heading)
    IN  {anc[a] : a \in
            {b \in 1..Len(anc) :
                IF mode = "generic"
                THEN /\ 50 <= Len(ElemText(page, anc[b]))
                     /\ Len(ElemText(page, anc[b])) <= 5000
                ELSE ListItemCount(page, anc[b]) > 0}}

\* the heading has fewer ancestors than the ascent has levels
ShallowTree ==
    Len(AncestorsOf(page, tier_heading))
        < (IF mode = "generic" THEN 10 ELSE 8)

\* C26: when the heading has fewer ancestors than the ascent has levels (10
\* in the generic scraper, 8 in the Notion scraper), the ascent of the tier
\* still ends with a qualifying ancestor chosen whenever there is one: the
\* tier is not dropped.
C26_ShallowTreeKeepsTier ==
    [][(/\ mode \in {"generic", "notion"}
        /\ pc = "ascend"
        /\ pc' # "ascend"
        /\ ShallowTree
        /\ QualifyingAncestors # {})
           => (pc' = "features" /\ best_container' \in QualifyingAncestors)]_vars

\* ------------------------------------------------------------------------
\* C27: the fallback of the Notion scraper picks the shallowest candidate
\* ------------------------------------------------------------------------

\* going up from the heading the list-item counts never decrease
CountsGrowUpwards ==
    LET anc == AncestorsOf(page, tier_heading)
    IN  \A a, b \in 1..Len(anc) :
           a < b => ListItemCount(page, anc[a]) <= ListItemCount(page, anc[b])

\* the selection of the Notion scraper falls back: ancestors with list
\* items exist and none of them has 5 to 35 of them and no other label
FallbackApplies ==
    /\ mode = "notion"
    /\ pc = "ascend"
    /\ AncestorsWithItems # <<>>
    /\ \A k \in 1..Len(AncestorsWithItems) :
          ~GoodContainer(AncestorsWithItems[k])

NoTraversalError == Len(AncestorsOf(page, tier_heading)) >= 9

\* C28: for every tier list get_tier_names returns, every scored ancestor
\* scores above -999; when the ascent ends without a traversal error and an
\* ascended ancestor has a text of 50 to 5000 characters, a container is
\* chosen, and the tier then gets its record.
C28_InitialBestNeverBlocks ==
    /\ [](InGenericTier =>
             \A k \in 1..Len(scored) : RuleScore(scored[k]) > -999 * 200)
    /\ [][(/\ mode = "generic"
            /\ pc = "ascend"
            /\ pc' # "ascend"
            /\ NoTraversalError
            /\ ~AllOutOfBand)
               => (pc' = "features" /\ best_container' # 0)]_vars
    /\ [][(mode = "generic" /\ pc = "features" /\ pc' # "features")
               => /\ Len(pricing_data') = Len(pricing_data) + 1
                  /\ pricing_data'[Len(pricing_data')].Tier = tier]_vars

\* a container holding four other labels and no list item has been chosen
\* with a negative score
C28_Witness ==
    /\ mode = "generic"
    /\ pc = "features"
    /\ Len(tier_names) = 5
    /\ best_score < 0
    /\ \E k \in 1..Len(scored) :
          /\ scored[k].element = best_container
          /\ scored[k].other_mentions = 4
          /\ scored[k].li_count = 0

\* ------------------------------------------------------------------------
\* C29: round trip of the Features field
\* ------------------------------------------------------------------------

\* both pipelines have read the records of a generic scrape
FeaturesReadBack == mode = "generic" /\ pc = "cleaned"

\* C29: for every record the generic scraper emits, the Feature_Count of
\* clean_and_normalize is the number of extracted features and the list
\* kept by clean_features is the list of extracted features.
C29_FeaturesRoundTrip ==
    FeaturesReadBack =>
        \A k \in 1..Len(pricing_data) :
            /\ Feature_Count[k] = Len(pricing_data[k].features)
            /\ Features_clean[k].cleaned = pricing_data[k].features

\* ------------------------------------------------------------------------
\* C30: users agree with the pricing table
\* ------------------------------------------------------------------------

\* the pricing table has a row for the user's company and tier with the
\* user's tier_level
LevelFromTable(u) ==
    \E k \in 1..Len(pricing_df) :
        /\ pricing_df[k].Company = u.company
        /\ pricing_df[k].Tier = u.tier
        /\ pricing_df[k].Tier_Level = u.tier_level

\* C30: every user generate_users appends has the tier_level that the
\* pricing table gives to the user's tier in the user's company, also when
\* the sampled level is one the company does not offer.
C30_UserLevelMatchesTable ==
    mode = "users" => \A i \in 1..Len(users) : LevelFromTable(users[i])

====
